---- MODULE Spec2Model ----
(***************************************************************************)
(* Niven-Jazz: the segmentation engine (src/src/lib/split.js) and the      *)
(* idempotent lifecycle layer (lib/cleanup.js = src/unnamed/part_000,      *)
(* src/src/cli.js) as a state machine.                                     *)
(*                                                                         *)
(* Times are whole seconds.  NaN (a parseFloat that fails) is the value    *)
(* NaN below; every comparison with it is false, as in JavaScript.         *)
(* An external ffmpeg/ffprobe invocation is one atomic step that either    *)
(* succeeds or throws.                                                     *)
(***************************************************************************)
EXTENDS Integers, Sequences, FiniteSets, TLC

\* ------------------------------------------------------------------------
\* Bounds of the model
\* ------------------------------------------------------------------------
MaxT == 5
MaxSil == 2
MaxMinSeg == 2
MaxStart == 2
MaxTrim == 1
MaxSides == 2
MaxRuns == 2
MaxClock == 2
MaxCalls == 2
MaxFiles == 3
MaxOverride == 1

\* ------------------------------------------------------------------------
\* Program constants
\* ------------------------------------------------------------------------
PadWidth == 3
MinTrackDur == 10
ItemSides == 2
DefaultMinSegment == 20
NivenIntroTrimSec == 12
PresetConcurrency == 2
NaN == -1
JsNull == -1000
JsUndefined == -1001

VARIABLES tracksExists, tracks, rawExists, rawFiles, trash, trashDirs, sp, v, ps, pi, lastReturn,
          cs, mc, mt, pg, pa, gp, sideAudio

vars == <<tracksExists, tracks, rawExists, rawFiles, trash, trashDirs, sp, v, ps, pi, lastReturn,
          cs, mc, mt, pg, pa, gp, sideAudio>>
fsVars == <<tracksExists, tracks>>
rawVars == <<rawExists, rawFiles, trash, trashDirs>>
splitFrame == <<v, ps, pi, rawVars, lastReturn, cs, mc, mt, pg, pa, gp, sideAudio>>
validatorFrame == <<sp, ps, pi, rawVars, lastReturn, cs, mc, mt, pg, pa, gp, sideAudio>>
sidesFrame == <<v, pi, rawVars, cs, mc, mt, pg, pa, gp, sideAudio>>

\* ------------------------------------------------------------------------
\* JavaScript number comparisons (false whenever an operand is NaN)
\* ------------------------------------------------------------------------
JsGt(a, b) == a # NaN /\ b # NaN /\ a > b
JsGe(a, b) == a # NaN /\ b # NaN /\ a >= b
JsLt(a, b) == a # NaN /\ b # NaN /\ a < b

\* ------------------------------------------------------------------------
\* File names.  A name is [k, d, ext]: the stem kind, its digits and the
\* extension as written on disk.
\* ------------------------------------------------------------------------
RECURSIVE Digits(_)
Digits(n) == IF n < 10 THEN <<n>> ELSE Digits(n \div 10) \o <<n % 10>>

RECURSIVE PadStart(_, _)
PadStart(s, w) == IF Len(s) >= w THEN s ELSE PadStart(<<0>> \o s, w)

\* cli.js 163-165: parseInt of the digits of a track file name
RECURSIVE FromDigits(_)
FromDigits(d) == IF Len(d) = 0 THEN 0
                 ELSE 10 * FromDigits(SubSeq(d, 1, Len(d) - 1)) + d[Len(d)]

IndexOfTrack(name) == FromDigits(name.d)

TrackName(n) == [k |-> "track", d |-> PadStart(Digits(n), PadWidth), ext |-> "mp3"]

TrimmedName(side) == [k |-> "_trimmed_", d |-> <<side>>, ext |-> "mp3"]

\* ------------------------------------------------------------------------
\* Audio: what silencedetect and ffprobe see in a working file
\* ------------------------------------------------------------------------
Interval(a, b) == [start |-> a, end |-> b, duration |-> b - a]

Intervals == {Interval(p[1], p[2]) : p \in {q \in (0..MaxT) \X (1..MaxT) : q[1] < q[2]}}

SortedDisjoint(s) == \A i \in 1..(Len(s) - 1) : s[i].end <= s[i + 1].start

SilenceLists == {s \in UNION {[1..n -> Intervals] : n \in 0..MaxSil} : SortedDisjoint(s)}

ExampleAudio == [silences |-> <<Interval(10, 11), Interval(45, 46)>>, total |-> 60]

SplitAudios == [silences : SilenceLists, total : 0..(MaxT + 1)]

SplitInputs == [audio : SplitAudios, minSegment : 0..MaxMinSeg]
               \cup {[audio |-> ExampleAudio, minSegment |-> DefaultMinSegment]}

\* ------------------------------------------------------------------------
\* splitIntoTracks: the call frame sp
\* ------------------------------------------------------------------------
NewSplit(side, run, audio, introTrimSec, minSegment, startIndex) ==
  [pc |-> "trim", side |-> side, run |-> run, audio |-> audio,
   introTrimSec |-> introTrimSec, minSegment |-> minSegment,
   startIndex |-> startIndex,
   workingFile |-> "input", silences |-> <<>>, i |-> 0, lastEnd |-> 0,
   segments |-> <<>>, totalDuration |-> NaN, j |-> 0,
   tracks |-> <<>>, trackIndex |-> startIndex, failed |-> {},
   started |-> 0, inFlight |-> 0, error |-> ""]

IdleSplit == [NewSplit(0, 0, [silences |-> <<>>, total |-> 0], 0, 0, 1) EXCEPT !.pc = "idle"]

FileOf(dur, idx) == [dur |-> dur, broken |-> FALSE, side |-> sp.side, run |-> sp.run, idx |-> idx]

WriteFile(dir, name, file) == [n \in (DOMAIN dir) \cup {name} |-> IF n = name THEN file ELSE dir[n]]

RemoveFile(dir, name) == [n \in (DOMAIN dir) \ {name} |-> dir[n]]

\* split.js 70-86: mkdir outDir, then the optional intro trim
S_Trim ==
  /\ sp.pc = "trim"
  /\ UNCHANGED splitFrame
  /\ tracksExists' = TRUE
  /\ IF sp.introTrimSec > 0
     THEN \/ /\ tracks' = WriteFile(tracks, TrimmedName(sp.side), FileOf(sp.audio.total, 0))
             /\ sp' = [sp EXCEPT !.pc = "detect", !.workingFile = "trimmed"]
          \/ /\ tracks' = tracks
             /\ sp' = [sp EXCEPT !.pc = "raised", !.error = "trim"]
     ELSE /\ tracks' = tracks
          /\ sp' = [sp EXCEPT !.pc = "detect"]

\* a dispatch without the zero-silence bypass
AfterDetect_NoBypass(silences) == "build"

\* split.js 91: the zero-silence test
AfterDetect(silences) == IF Len(silences) = 0 THEN "whole" ELSE "build"

\* split.js 89-91 with detectSilence 14-46
S_Detect ==
  /\ sp.pc = "detect"
  /\ UNCHANGED splitFrame
  /\ \/ sp' = [sp EXCEPT !.silences = sp.audio.silences,
                         !.pc = AfterDetect(sp.audio.silences)]
     \/ sp' = [sp EXCEPT !.pc = "raised", !.error = "analysis"]
  /\ UNCHANGED fsVars

\* a failed whole-file export that is skipped like a failed segment
WholeExportFailed_Contained(f) == [f EXCEPT !.pc = "returned"]

\* split.js 95: the export of the whole file has no try around it
WholeExportFailed(f) == [f EXCEPT !.pc = "raised", !.error = "export"]

\* split.js 91-97: no silence, the whole working file is one track
S_Whole ==
  /\ sp.pc = "whole"
  /\ UNCHANGED splitFrame
  /\ \/ /\ tracks' = WriteFile(tracks, TrackName(sp.startIndex), FileOf(sp.audio.total, sp.startIndex))
        /\ sp' = [sp EXCEPT !.pc = "returned",
                            !.tracks = <<TrackName(sp.startIndex)>>,
                            !.trackIndex = sp.startIndex + 1]
     \/ /\ tracks' = tracks
        /\ sp' = WholeExportFailed(sp)
  /\ UNCHANGED tracksExists

\* a segment builder that forgets the minSegment filter
BuildStep_NoMin(f) ==
  LET silence == f.silences[f.i + 1]
      kept == IF JsGt(silence.start, f.lastEnd)
              THEN Append(f.segments, Interval(f.lastEnd, silence.start))
              ELSE f.segments
  IN [f EXCEPT !.segments = kept, !.lastEnd = silence.end, !.i = f.i + 1]

\* a segment builder that moves lastEnd only past a kept candidate
BuildStep_Merge(f) ==
  LET silence == f.silences[f.i + 1]
      duration == silence.start - f.lastEnd
      keep == JsGt(silence.start, f.lastEnd) /\ JsGe(duration, f.minSegment)
  IN [f EXCEPT !.segments = IF keep THEN Append(f.segments, Interval(f.lastEnd, silence.start))
                            ELSE f.segments,
               !.lastEnd = IF keep \/ ~JsGt(silence.start, f.lastEnd) THEN silence.end ELSE f.lastEnd,
               !.i = f.i + 1]

\* split.js 103-111: one iteration of the loop over the silences
BuildStep(f) ==
  LET silence == f.silences[f.i + 1]
      duration == silence.start - f.lastEnd
      kept == IF JsGt(silence.start, f.lastEnd) /\ JsGe(duration, f.minSegment)
              THEN Append(f.segments, Interval(f.lastEnd, silence.start))
              ELSE f.segments
  IN [f EXCEPT !.segments = kept, !.lastEnd = silence.end, !.i = f.i + 1]

S_Build ==
  /\ sp.pc = "build"
  /\ UNCHANGED splitFrame
  /\ IF sp.i < Len(sp.silences)
     THEN sp' = BuildStep(sp)
     ELSE sp' = [sp EXCEPT !.pc = "probe"]
  /\ UNCHANGED fsVars

\* split.js 114-121: ffprobe of the working file and the trailing segment
FinalSegment(f, totalDuration) ==
  LET duration == totalDuration - f.lastEnd
  IN IF JsGt(totalDuration, f.lastEnd) /\ JsGe(duration, f.minSegment)
     THEN Append(f.segments, Interval(f.lastEnd, totalDuration))
     ELSE f.segments

S_Probe ==
  /\ sp.pc = "probe"
  /\ UNCHANGED splitFrame
  /\ \/ \E td \in {sp.audio.total, NaN} :
          sp' = [sp EXCEPT !.totalDuration = td, !.segments = FinalSegment(sp, td),
                           !.pc = "export"]
     \/ sp' = [sp EXCEPT !.pc = "raised", !.error = "probe"]
  /\ UNCHANGED fsVars

\* a failed export that aborts the call
ExportFailed_Raise(f) ==
  [f EXCEPT !.pc = "raised", !.failed = f.failed \cup {f.j + 1}, !.error = "export"]

\* a failed export that still consumes its index
ExportFailed_Gap(f) ==
  [f EXCEPT !.j = f.j + 1, !.failed = f.failed \cup {f.j + 1}, !.trackIndex = f.trackIndex + 1]

\* a successful export that does not advance the counter
ExportSucceeded_NoAdvance(f, outputPath) ==
  [f EXCEPT !.tracks = Append(f.tracks, outputPath), !.j = f.j + 1]

\* split.js 136-139: the export succeeded
ExportSucceeded(f, outputPath) ==
  [f EXCEPT !.tracks = Append(f.tracks, outputPath),
            !.trackIndex = f.trackIndex + 1,
            !.j = f.j + 1]

\* split.js 140-142: the catch of a failed export
ExportFailed(f) == [f EXCEPT !.j = f.j + 1, !.failed = f.failed \cup {f.j + 1}]

\* an export that is started and not awaited
StartExport_NoAwait(f) == [f EXCEPT !.started = f.started + 1, !.inFlight = f.inFlight + 1]

\* split.js 136: ffmpeg is started and the loop waits for it
StartExport(f) ==
  [f EXCEPT !.pc = "exporting", !.started = f.started + 1, !.inFlight = f.inFlight + 1]

\* split.js 136: the awaited process has ended and the loop goes on
Awaited(f) ==
  [f EXCEPT !.pc = IF f.pc = "exporting" THEN "export" ELSE f.pc, !.inFlight = f.inFlight - 1]

\* split.js 129-136: the next segment's export command is issued
S_ExportStart ==
  /\ sp.pc = "export"
  /\ UNCHANGED splitFrame
  /\ sp.started < Len(sp.segments)
  /\ sp' = StartExport(sp)
  /\ UNCHANGED fsVars

\* split.js 136-142: the export ends, with its track written or with an error
S_Export ==
  /\ sp.pc = "exporting"
  /\ UNCHANGED splitFrame
  /\ LET segment == sp.segments[sp.j + 1]
         outputPath == TrackName(sp.trackIndex)
     IN \/ /\ tracks' = WriteFile(tracks, outputPath, FileOf(segment.duration, sp.trackIndex))
           /\ sp' = Awaited(ExportSucceeded(sp, outputPath))
        \/ /\ tracks' = tracks
           /\ sp' = Awaited(ExportFailed(sp))
  /\ UNCHANGED tracksExists

\* a cleanup that unlinks the working file whatever it is
IsTempFile_Always(workingFile) == TRUE

\* split.js 146: workingFile !== inputPath
IsTempFile(workingFile) == workingFile # "input"

\* split.js 145-150: unlink the working file when it is not the input and it
\* exists (the input is the side's file under raw/), then return
S_Finish ==
  /\ sp.pc = "export"
  /\ sp.j = Len(sp.segments)
  /\ tracks' = IF /\ IsTempFile(sp.workingFile) /\ sp.workingFile = "trimmed"
                  /\ TrimmedName(sp.side) \in DOMAIN tracks
               THEN RemoveFile(tracks, TrimmedName(sp.side))
               ELSE tracks
  /\ rawFiles' = IF IsTempFile(sp.workingFile) /\ sp.workingFile = "input"
                 THEN rawFiles \ {sp.side}
                 ELSE rawFiles
  /\ sp' = [sp EXCEPT !.pc = "returned"]
  /\ UNCHANGED <<tracksExists, rawExists, trash, trashDirs, v, ps, pi, lastReturn, cs, mc, mt,
                 pg, pa, gp, sideAudio>>

\* ------------------------------------------------------------------------
\* isTracksOutputValid (part_000 13-47): the call frame v
\* ------------------------------------------------------------------------
ToLowerCase(ext) == CASE ext = "MP3" -> "mp3"
                      [] ext = "Mp3" -> "mp3"
                      [] ext = "TXT" -> "txt"
                      [] OTHER -> ext

EndsWithMp3(name) == ToLowerCase(name.ext) = "mp3"

NoName == [k |-> "", d |-> <<>>, ext |-> ""]

Verdict(valid, reason, file, mp3Count) ==
  [valid |-> valid, reason |-> reason, file |-> file, mp3Count |-> mp3Count]

NewValidator(caller) ==
  [pc |-> "start", caller |-> caller, mp3Files |-> {}, todo |-> {}, probed |-> <<>>,
   result |-> Verdict(FALSE, "", NoName, 0)]

IdleValidator == [NewValidator("none") EXCEPT !.pc = "idle"]

\* part_000 14-27: the directory test, readdir and the .mp3 filter
V_Start ==
  /\ v.pc = "start"
  /\ UNCHANGED validatorFrame
  /\ IF ~tracksExists
     THEN v' = [v EXCEPT !.pc = "done",
                         !.result = Verdict(FALSE, "tracks/ directory not found", NoName, 0)]
     ELSE LET mp3Files == {f \in DOMAIN tracks : EndsWithMp3(f)}
          IN IF Cardinality(mp3Files) = 0
             THEN v' = [v EXCEPT !.pc = "done",
                                 !.result = Verdict(FALSE, "no MP3 files in tracks/", NoName, 0)]
             ELSE v' = [v EXCEPT !.pc = "probe", !.mp3Files = mp3Files, !.todo = mp3Files]
  /\ UNCHANGED fsVars

\* a duration test without the isNaN guard
ProbeOutcome_NoNaN(file) ==
  IF file.broken THEN "failed to probe"
  ELSE IF JsLt(file.dur, MinTrackDur) THEN "too short"
  ELSE "ok"

\* a duration test that rejects a track of exactly the minimum
ProbeOutcome_Strict(file) ==
  IF file.broken THEN "failed to probe"
  ELSE IF file.dur = NaN \/ file.dur <= MinTrackDur THEN "too short"
  ELSE "ok"

\* part_000 32-43: ffprobe of one file, parseFloat and the duration test
ProbeOutcome(file) ==
  IF file.broken THEN "failed to probe"
  ELSE IF file.dur = NaN \/ JsLt(file.dur, MinTrackDur) THEN "too short"
  ELSE "ok"

\* part_000 30-44: one iteration of the probe loop (readdir order is the
\* file system's, so any not yet probed file may come next)
V_Probe ==
  /\ v.pc = "probe"
  /\ UNCHANGED validatorFrame
  /\ \E mp3 \in v.todo :
       LET outcome == ProbeOutcome(tracks[mp3])
       IN IF outcome = "ok"
          THEN v' = [v EXCEPT !.todo = v.todo \ {mp3}, !.probed = Append(v.probed, mp3)]
          ELSE v' = [v EXCEPT !.pc = "done", !.probed = Append(v.probed, mp3),
                              !.result = Verdict(FALSE, outcome, mp3, 0)]
  /\ UNCHANGED fsVars

\* part_000 46: every file passed
V_Valid ==
  /\ v.pc = "probe"
  /\ UNCHANGED validatorFrame
  /\ v.todo = {}
  /\ v' = [v EXCEPT !.pc = "done",
                    !.result = Verdict(TRUE, "", NoName, Cardinality(v.mp3Files))]
  /\ UNCHANGED fsVars

\* ------------------------------------------------------------------------
\* checkSkipStatus (part_000 299-317): the call frame cs
\* ------------------------------------------------------------------------
NoSkipStatus == [skip |-> FALSE, reason |-> "", needsDownload |-> FALSE, needsSplit |-> FALSE]

IdleCheck == [pc |-> "idle", result |-> NoSkipStatus, calls |-> 0, previous |-> NoSkipStatus]

\* a planner that trusts its own earlier answer instead of the disk
CheckSkipStatus_Remembered(tracksValid, hasRaw) ==
  IF tracksValid.valid \/ cs.calls > 0
  THEN [skip |-> TRUE, reason |-> "tracks output valid", needsDownload |-> FALSE, needsSplit |-> FALSE]
  ELSE IF ~hasRaw
  THEN [skip |-> FALSE, reason |-> "needs full processing", needsDownload |-> TRUE, needsSplit |-> TRUE]
  ELSE [skip |-> FALSE, reason |-> "needs split", needsDownload |-> FALSE, needsSplit |-> TRUE]

\* a planner that reads the raw directory the wrong way round
CheckSkipStatus_RawInverted(tracksValid, hasRaw) ==
  IF tracksValid.valid
  THEN [skip |-> TRUE, reason |-> "tracks output valid", needsDownload |-> FALSE, needsSplit |-> FALSE]
  ELSE IF hasRaw
  THEN [skip |-> FALSE, reason |-> "needs full processing", needsDownload |-> TRUE, needsSplit |-> TRUE]
  ELSE [skip |-> FALSE, reason |-> "needs split", needsDownload |-> FALSE, needsSplit |-> TRUE]

\* part_000 301-316: the three verdicts
CheckSkipStatus(tracksValid, hasRaw) ==
  IF tracksValid.valid
  THEN [skip |-> TRUE, reason |-> "tracks output valid", needsDownload |-> FALSE, needsSplit |-> FALSE]
  ELSE IF ~hasRaw
  THEN [skip |-> FALSE, reason |-> "needs full processing", needsDownload |-> TRUE, needsSplit |-> TRUE]
  ELSE [skip |-> FALSE, reason |-> "needs split", needsDownload |-> FALSE, needsSplit |-> TRUE]

\* part_000 300: the validator is asked first
CS_Start ==
  /\ cs.pc = "start"
  /\ cs' = [cs EXCEPT !.pc = "validate"]
  /\ v' = NewValidator("checkSkipStatus")
  /\ UNCHANGED <<sideAudio, pg, pa, gp, fsVars, rawVars, sp, ps, pi, lastReturn, mc, mt>>

\* part_000 301-316: the verdict from the validation and the raw directory
CS_Verdict ==
  /\ cs.pc = "validate"
  /\ v.pc = "done"
  /\ cs' = [cs EXCEPT !.pc = "done", !.result = CheckSkipStatus(v.result, rawExists),
                      !.calls = cs.calls + 1]
  /\ v' = IdleValidator
  /\ UNCHANGED <<sideAudio, pg, pa, gp, fsVars, rawVars, sp, ps, pi, lastReturn, mc, mt>>

\* ------------------------------------------------------------------------
\* moveToTrash (part_000 67-96): the call frame mt.  The trash of the item
\* maps <<timestamp, basename>> to what was moved there.
\* ------------------------------------------------------------------------
Clock == 1..MaxClock

NoKey == <<0, "">>

RawFileSize(side) == side

RECURSIVE DirSize(_)
DirSize(files) ==
  IF files = {} THEN 0
  ELSE LET f == CHOOSE x \in files : TRUE IN RawFileSize(f) + DirSize(files \ {f})

NewMove(caller, src, dryRun) ==
  [pc |-> "call", caller |-> caller, src |-> src, dryRun |-> dryRun, result |-> NoKey,
   trashPath |-> NoKey, srcFiles |-> {}, srcExisted |-> FALSE]

IdleMove == [NewMove("none", "", FALSE) EXCEPT !.pc = "idle"]

\* part_000 74: <trashBaseDir>/<identifier>/<timestamp>/<basename>
TrashPath(now, src) == <<now, src>>

\* a move that does not look whether the source is there
SourceFound_Always(exists) == TRUE

\* part_000 68: pathExists of the source
SourceFound(exists) == exists

\* a move that overwrites an existing trash entry
MayMoveTo_Overwrite(trashPath) == TRUE

\* part_000 83: fs.move with overwrite: false refuses an existing destination
MayMoveTo(trashPath) == trashPath \notin DOMAIN trash

\* a dry run that is not honoured
MoveSkipped_Never(dryRun) == FALSE

\* part_000 76-79: the dry run returns before anything is touched
MoveSkipped(dryRun) == dryRun

\* a move that copies and leaves the source in place
SourceExistsAfterMove_Copy(existed) == existed

\* part_000 83: the source is gone once fs.move has succeeded
SourceExistsAfterMove(existed) == FALSE

\* a move that loses what it moves
TrashEntry_Empty(files) == [files |-> {}, size |-> 0]

\* part_000 83-88: the destination holds what the source held
TrashEntry(files) == [files |-> files, size |-> DirSize(files)]

PutTrash(dir, trashPath, entry) ==
  [p \in (DOMAIN dir) \cup {trashPath} |-> IF p = trashPath THEN entry ELSE dir[p]]

\* part_000 67-96: the whole call.  ensureDir creates the timestamp directory
\* before fs.move; a move that fails, then or later, is caught and gives null
MT_Move ==
  /\ mt.pc = "call"
  /\ mt.src = "raw"
  /\ IF ~SourceFound(rawExists)
     THEN /\ mt' = [mt EXCEPT !.pc = "returned", !.result = NoKey]
          /\ UNCHANGED rawVars
     ELSE \E now \in Clock :
            LET trashPath == TrashPath(now, mt.src)
                called == [mt EXCEPT !.pc = "returned", !.srcFiles = rawFiles,
                                     !.srcExisted = rawExists, !.trashPath = trashPath]
            IN IF MoveSkipped(mt.dryRun)
               THEN /\ mt' = [called EXCEPT !.result = NoKey]
                    /\ UNCHANGED rawVars
               ELSE \/ /\ MayMoveTo(trashPath)
                       /\ rawExists' = SourceExistsAfterMove(rawExists)
                       /\ rawFiles' = IF rawExists' THEN rawFiles ELSE {}
                       /\ trash' = PutTrash(trash, trashPath, TrashEntry(rawFiles))
                       /\ trashDirs' = trashDirs \cup {now}
                       /\ mt' = [called EXCEPT !.result = trashPath]
                    \/ /\ mt' = [called EXCEPT !.result = NoKey]
                       /\ trashDirs' \in {trashDirs, trashDirs \cup {now}}
                       /\ UNCHANGED <<rawExists, rawFiles, trash>>
  /\ UNCHANGED <<sideAudio, pg, pa, gp, fsVars, sp, v, ps, pi, lastReturn, cs, mc>>

\* ------------------------------------------------------------------------
\* maybeCleanupItem (part_000 163-251) with purgeTrash (104-125): the call
\* frame mc
\* ------------------------------------------------------------------------
CleanupLevels == {"raw", "tracks", "all", "other"}

CleanupOptions ==
  [cleanup : BOOLEAN, cleanupLevel : CleanupLevels, dryRun : BOOLEAN,
   purgeTrash : BOOLEAN, failed : BOOLEAN]

NewReport(options) ==
  [enabled |-> options.cleanup, level |-> options.cleanupLevel, movedToTrash |-> <<>>,
   purged |-> FALSE, savedBytes |-> 0, skipped |-> ""]

NewCleanup(options) ==
  [pc |-> "gate", options |-> options, report |-> NewReport(options),
   validation |-> Verdict(FALSE, "", NoName, 0), toClean |-> <<>>]

IdleCleanup ==
  [NewCleanup([cleanup |-> FALSE, cleanupLevel |-> "all", dryRun |-> FALSE,
               purgeTrash |-> FALSE, failed |-> FALSE]) EXCEPT !.pc = "idle"]

\* part_000 184-193: the two early returns
CleanupGate(options) ==
  IF ~options.cleanup THEN "cleanup disabled"
  ELSE IF options.failed THEN "item failed"
  ELSE ""

\* part_000 184-201
MC_Gate ==
  /\ mc.pc = "gate"
  /\ LET skipped == CleanupGate(mc.options)
     IN IF skipped # ""
        THEN /\ mc' = [mc EXCEPT !.pc = "returned", !.report.skipped = skipped]
             /\ v' = v
        ELSE /\ mc' = [mc EXCEPT !.pc = "validate"]
             /\ v' = NewValidator("maybeCleanupItem")
  /\ UNCHANGED <<sideAudio, pg, pa, gp, fsVars, rawVars, sp, ps, pi, lastReturn, cs, mt>>

\* a cleanup that goes on whatever the validator said
ValidationAllows_Always(validation) == TRUE

\* part_000 203: only a valid tracks output lets the cleanup go on
ValidationAllows(validation) == validation.valid

\* candidates that follow the name of the level
ToClean_ByLevel(level) ==
  IF level = "raw" \/ level = "all"
  THEN IF rawExists
       THEN <<[path |-> "raw", name |-> "raw", size |-> DirSize(rawFiles)]>>
       ELSE <<>>
  ELSE IF level = "tracks"
  THEN IF tracksExists
       THEN <<[path |-> "tracks", name |-> "tracks", size |-> Cardinality(DOMAIN tracks)]>>
       ELSE <<>>
  ELSE <<>>

\* part_000 216-220: the candidates are the raw directory, for each of the
\* three known levels
ToClean(level) ==
  IF level = "raw" \/ level = "tracks" \/ level = "all"
  THEN IF rawExists
       THEN <<[path |-> "raw", name |-> "raw", size |-> DirSize(rawFiles)]>>
       ELSE <<>>
  ELSE <<>>

\* part_000 203-226
MC_Validated ==
  /\ mc.pc = "validate"
  /\ v.pc = "done"
  /\ v' = IdleValidator
  /\ IF ~ValidationAllows(v.result)
     THEN mc' = [mc EXCEPT !.pc = "returned", !.validation = v.result,
                           !.report.skipped = v.result.reason]
     ELSE LET toClean == ToClean(mc.options.cleanupLevel)
          IN IF Len(toClean) = 0
             THEN mc' = [mc EXCEPT !.pc = "returned", !.validation = v.result,
                                   !.report.skipped = "nothing to clean"]
             ELSE mc' = [mc EXCEPT !.pc = "move", !.validation = v.result,
                                   !.toClean = toClean]
  /\ UNCHANGED <<sideAudio, pg, pa, gp, fsVars, rawVars, sp, ps, pi, lastReturn, cs, mt>>

\* part_000 231-232: moveToTrash is called for the candidate
MC_Move ==
  /\ mc.pc = "move"
  /\ mt' = NewMove("maybeCleanupItem", mc.toClean[1].path, mc.options.dryRun)
  /\ mc' = [mc EXCEPT !.pc = "moving"]
  /\ UNCHANGED <<sideAudio, pg, pa, gp, fsVars, rawVars, sp, v, ps, pi, lastReturn, cs>>

\* part_000 233-236: a move that gave a trash path is reported
MC_Moved ==
  /\ mc.pc = "moving"
  /\ mt.pc = "returned"
  /\ mc' = IF mt.result # NoKey
           THEN [mc EXCEPT !.pc = "purge",
                           !.report.movedToTrash = Append(mc.report.movedToTrash, mc.toClean[1].name),
                           !.report.savedBytes = mc.report.savedBytes + mc.toClean[1].size]
           ELSE [mc EXCEPT !.pc = "purge"]
  /\ mt' = IdleMove
  /\ UNCHANGED <<sideAudio, pg, pa, gp, fsVars, rawVars, sp, v, ps, pi, lastReturn, cs>>

\* a purge that does not look at what was moved
PurgeWanted_Unguarded(options, report) == options.purgeTrash

\* part_000 240: the purge needs the request, a move and no dry run
PurgeWanted(options, report) ==
  options.purgeTrash /\ Len(report.movedToTrash) > 0 /\ ~options.dryRun

\* part_000 239-250 with purgeTrash 104-125: the subtree of the item is
\* removed, or the removal fails and is caught
MC_Purge ==
  /\ mc.pc = "purge"
  /\ IF PurgeWanted(mc.options, mc.report) /\ trashDirs # {} /\ ~mc.options.dryRun
     THEN \/ /\ trash' = <<>>
             /\ trashDirs' = {}
             /\ mc' = [mc EXCEPT !.pc = "returned", !.report.purged = TRUE]
          \/ /\ UNCHANGED <<trash, trashDirs>>
             /\ mc' = [mc EXCEPT !.pc = "returned", !.report.purged = FALSE]
     ELSE /\ UNCHANGED <<trash, trashDirs>>
          /\ mc' = [mc EXCEPT !.pc = "returned"]
  /\ UNCHANGED <<sideAudio, pg, pa, gp, fsVars, rawExists, rawFiles, sp, v, ps, pi, lastReturn, cs, mt>>

\* ------------------------------------------------------------------------
\* progressiveCleanup (part_000 259-279): the call frame pg
\* ------------------------------------------------------------------------
ProgressiveKeys == {"enabled", "dryRun", "prerequisiteValid"}

\* the options object of a caller: any of the keys may be left out
ProgressiveOptions == UNION {[keys -> BOOLEAN] : keys \in SUBSET ProgressiveKeys}

\* part_000 260-266: destructuring with a default for a key left out
Option(options, key, default) ==
  IF key \in DOMAIN options THEN options[key] ELSE default

NewProgressive(filePath, options) ==
  [pc |-> "gate", filePath |-> filePath, options |-> options,
   enabled |-> Option(options, "enabled", FALSE),
   dryRun |-> Option(options, "dryRun", FALSE),
   prerequisiteValid |-> Option(options, "prerequisiteValid", TRUE),
   result |-> FALSE]

IdleProgressive == [NewProgressive("", <<>>) EXCEPT !.pc = "idle"]

\* a gate that does not look at the prerequisite
ProgressiveAllowed_NoPrerequisite(enabled, prerequisiteValid) == enabled

\* part_000 268-275: both early returns
ProgressiveAllowed(enabled, prerequisiteValid) == enabled /\ prerequisiteValid

\* part_000 268-277: return false, or call moveToTrash
PG_Gate ==
  /\ pg.pc = "gate"
  /\ IF ~ProgressiveAllowed(pg.enabled, pg.prerequisiteValid)
     THEN /\ pg' = [pg EXCEPT !.pc = "returned", !.result = FALSE]
          /\ UNCHANGED mt
     ELSE /\ mt' = NewMove("progressiveCleanup", pg.filePath, pg.dryRun)
          /\ pg' = [pg EXCEPT !.pc = "moving"]
  /\ UNCHANGED <<sideAudio, pa, gp, fsVars, rawVars, sp, v, ps, pi, lastReturn, cs, mc>>

\* part_000 277-278: return !!trashPath
PG_Moved ==
  /\ pg.pc = "moving"
  /\ mt.pc = "returned"
  /\ pg' = [pg EXCEPT !.pc = "returned", !.result = (mt.result # NoKey)]
  /\ mt' = IdleMove
  /\ UNCHANGED <<sideAudio, pa, gp, fsVars, rawVars, sp, v, ps, pi, lastReturn, cs, mc>>

\* ------------------------------------------------------------------------
\* pickAudioFiles (part_001 71-124) with isAudioFile (27-37) and ensureSides
\* (42-55): the call frame pa
\* ------------------------------------------------------------------------
\* A file name of the item's metadata: stem, then tag (a part such as ".m3u"
\* inside the name), then "_Side_" and side when side is not "", then "." and
\* ext
MetaName(stem, tag, side, ext) == [stem |-> stem, tag |-> tag, side |-> side, ext |-> ext]

MetaNames ==
  {MetaName(1, "", "A", "mp3"), MetaName(2, "", "A", "MP3"), MetaName(1, "", "B", "mp3"),
   MetaName(2, "", "B", "Mp3"), MetaName(1, "", "", "mp3"), MetaName(1, "", "A", "flac"),
   MetaName(1, "", "", "flac"), MetaName(1, "", "", "wav"), MetaName(1, "", "", "ogg"),
   MetaName(1, "_meta", "", "xml"), MetaName(1, ".m3u", "A", "mp3")}

\* part_001 32-36: the name is lower-cased, playlists and metadata files are
\* left out, the extension decides
IsAudioFile(name) ==
  /\ ~(name.tag = ".m3u" \/ ToLowerCase(name.ext) = "m3u")
  /\ ~(name.tag \in {"_meta", "_files"} /\ name.side = "" /\ ToLowerCase(name.ext) = "xml")
  /\ ~(name.tag \in {"_meta.xml", "_files.xml"})
  /\ ToLowerCase(name.ext) \in {"mp3", "flac", "wav", "ogg"}

\* name.toLowerCase().endsWith('.' + ext)
HasExt(name, ext) == ToLowerCase(name.ext) = ext

\* part_001 43-44: /_Side_A\.mp3$/i and /_Side_B\.mp3$/i
SidePattern(side, name) == name.side = side /\ ToLowerCase(name.ext) = "mp3"

\* no file: what Array.prototype.find gives without a match
NoFile == MetaName(0, "", "", "")

\* part_001 42-55: find gives the first match (SelectSeq is
\* Array.prototype.filter)
EnsureSides(files) ==
  LET IsA(name) == SidePattern("A", name)
      IsB(name) == SidePattern("B", name)
      allA == SelectSeq(files, IsA)
      allB == SelectSeq(files, IsB)
      sideA == IF Len(allA) = 0 THEN NoFile ELSE Head(allA)
      sideB == IF Len(allB) = 0 THEN NoFile ELSE Head(allB)
  IN [hasA |-> sideA # NoFile, hasB |-> sideB # NoFile, sideA |-> sideA, sideB |-> sideB]

Picked(files) == [raised |-> FALSE, files |-> files]

PickRaised == [raised |-> TRUE, files |-> <<>>]

\* part_001 98-105: an incomplete Side A/B pair raises
IncompletePair(mp3Files) == PickRaised

\* a selection that returns the sides in the order of the metadata
SidePair_MetadataOrder(mp3Files, sides) ==
  LET IsSide(name) == name \in {sides.sideA, sides.sideB} IN SelectSeq(mp3Files, IsSide)

\* part_001 94: Side A, then Side B
SidePair(mp3Files, sides) == <<sides.sideA, sides.sideB>>

\* part_001 71-124
PickAudioFiles(files, preferMp3) ==
  LET IsMp3(name) == HasExt(name, "mp3")
      IsFlac(name) == HasExt(name, "flac")
      IsWav(name) == HasExt(name, "wav")
      audioFiles == SelectSeq(files, IsAudioFile)
      mp3Files == SelectSeq(audioFiles, IsMp3)
      flacFiles == SelectSeq(audioFiles, IsFlac)
      wavFiles == SelectSeq(audioFiles, IsWav)
      sides == EnsureSides(mp3Files)
  IN IF Len(audioFiles) = 0 THEN PickRaised
     ELSE IF preferMp3 /\ Len(mp3Files) > 0
          THEN IF sides.hasA /\ sides.hasB
               THEN Picked(SidePair(mp3Files, sides))
               ELSE IncompletePair(mp3Files)
     ELSE IF preferMp3 /\ Len(flacFiles) > 0 THEN Picked(flacFiles)
     ELSE IF preferMp3 /\ Len(wavFiles) > 0 THEN Picked(wavFiles)
     ELSE Picked(audioFiles)

NewPick(files, preferMp3) ==
  [pc |-> "call", files |-> files, preferMp3 |-> preferMp3, result |-> PickRaised]

IdlePick == [NewPick(<<>>, TRUE) EXCEPT !.pc = "idle"]

\* one call of pickAudioFiles
PA_Pick ==
  /\ pa.pc = "call"
  /\ pa' = [pa EXCEPT !.pc = "done", !.result = PickAudioFiles(pa.files, pa.preferMp3)]
  /\ UNCHANGED <<sideAudio, pg, gp, fsVars, rawVars, sp, v, ps, pi, lastReturn, cs, mc, mt>>

\* ------------------------------------------------------------------------
\* getPreset (part_003 32-63) over PRESETS (part_003 5-24): the call frame gp.
\* minSilence is held in tenths of a second; the name and description of a
\* preset are left out
\* ------------------------------------------------------------------------
SettingKeys == {"noiseDb", "minSilence", "minSegment", "introTrimSec", "concurrency"}

NivenPreset ==
  [noiseDb |-> -35, minSilence |-> 6, minSegment |-> 20, introTrimSec |-> NivenIntroTrimSec,
   concurrency |-> PresetConcurrency]

DefaultPreset ==
  [noiseDb |-> -40, minSilence |-> 5, minSegment |-> 15, introTrimSec |-> 0,
   concurrency |-> PresetConcurrency]

\* the own keys of PRESETS
OwnPresets == [niven |-> NivenPreset, default |-> DefaultPreset]

\* keys every object inherits from Object.prototype
InheritedKeys == {"constructor", "toString"}

\* the presetName argument: null when the caller gives none
PresetName(name) == [given |-> TRUE, name |-> name]

NoPresetName == [given |-> FALSE, name |-> ""]

PresetNames ==
  {NoPresetName} \cup
  {PresetName(name) : name \in {"", "niven", "default", "jazz"} \cup InheritedKeys}

\* values of a CLI override: null, undefined, or a number
OverrideValues == {JsNull, JsUndefined} \cup 0..MaxOverride

CliOverrides == UNION {[keys -> OverrideValues] : keys \in SUBSET SettingKeys}

\* part_003 35 and 38: presetName && ..., false for null and for ""
Truthy(presetName) == presetName.given /\ presetName.name # ""

\* part_003 35: PRESETS[presetName] is truthy for an own key and for a key
\* inherited from Object.prototype
PresetFound(presetName) ==
  presetName.name \in (DOMAIN OwnPresets) \cup InheritedKeys

\* part_003 36: { ...PRESETS[presetName] }; the spread of an inherited member
\* has no setting
SpreadPreset(name) == IF name \in DOMAIN OwnPresets THEN OwnPresets[name] ELSE <<>>

\* part_003 33-44
BaseSettings(presetName) ==
  IF Truthy(presetName) /\ PresetFound(presetName) THEN SpreadPreset(presetName.name)
  ELSE IF Truthy(presetName) THEN DefaultPreset
  ELSE NivenPreset

\* part_003 50: v !== undefined && v !== null
Overrides(value) == value # JsUndefined /\ value # JsNull

\* part_003 47-52: the base settings, then the overrides that are kept
FinalSettings(baseSettings, cliOverrides) ==
  LET kept == {k \in DOMAIN cliOverrides : Overrides(cliOverrides[k])}
  IN [k \in (DOMAIN baseSettings) \cup kept |->
        IF k \in kept THEN cliOverrides[k] ELSE baseSettings[k]]

GetPreset(presetName, cliOverrides) == FinalSettings(BaseSettings(presetName), cliOverrides)

NewPreset(presetName, cliOverrides) ==
  [pc |-> "call", presetName |-> presetName, cliOverrides |-> cliOverrides, result |-> <<>>]

IdlePreset == [NewPreset(NoPresetName, <<>>) EXCEPT !.pc = "idle"]

\* one call of getPreset
GP_Get ==
  /\ gp.pc = "call"
  /\ gp' = [gp EXCEPT !.pc = "done", !.result = GetPreset(gp.presetName, gp.cliOverrides)]
  /\ UNCHANGED <<sideAudio, pg, pa, fsVars, rawVars, sp, v, ps, pi, lastReturn, cs, mc, mt>>

\* ------------------------------------------------------------------------
\* processSides (split.js 160-180): the call frame ps
\* ------------------------------------------------------------------------
\* no side is processed
NoAudio == <<>>

\* What a side file of the item may contain: sideAudio[s] is the audio of
\* side s, the same in every download of the item
SideAudios ==
  {[silences |-> <<>>, total |-> 60],
   [silences |-> <<>>, total |-> 8],
   [silences |-> <<Interval(30, 31)>>, total |-> 60],
   [silences |-> <<Interval(6, 7)>>, total |-> 12]}

\* options.startIndex of a caller that gives none
NoStartIndex == 0

\* split.js 160 and 170-173: the options of processSides; startIndex is
\* NoStartIndex or the index the caller asks for, progressiveCleanup is the
\* flag cli.js 309 passes
SplitOptions ==
  [introTrimSec : {0, NivenIntroTrimSec}, minSegment : {DefaultMinSegment},
   concurrency : {1, PresetConcurrency, 2 * PresetConcurrency},
   startIndex : {NoStartIndex} \cup 1..MaxStart,
   progressiveCleanup : BOOLEAN]

\* a sequencer that restarts the numbering on every side
FirstIndexOfSide_Restart(currentIndex) == 1

\* split.js 170-173: the running index is this side's startIndex
FirstIndexOfSide(currentIndex) == currentIndex

NewSides(n, run, options) ==
  [pc |-> "loop", n |-> n, run |-> run, options |-> options, i |-> 0,
   allTracks |-> <<>>, currentIndex |-> 1, counts |-> <<>>, failures |-> 0]

IdleSides ==
  [NewSides(0, 0, [introTrimSec |-> 0, minSegment |-> 0, concurrency |-> 0,
                   startIndex |-> NoStartIndex, progressiveCleanup |-> FALSE])
     EXCEPT !.pc = "idle"]

NoReturns == [s \in 1..MaxSides |-> [ok |-> FALSE, files |-> {}]]

\* split.js 164-173: the loop test and the call of splitIntoTracks
PS_Call ==
  /\ ps.pc = "loop"
  /\ ps.i < ps.n
  /\ sp' = NewSplit(ps.i + 1, ps.run, sideAudio[ps.i + 1], ps.options.introTrimSec,
                   ps.options.minSegment, FirstIndexOfSide(ps.currentIndex))
  /\ ps' = [ps EXCEPT !.pc = "wait"]
  /\ UNCHANGED <<fsVars, sidesFrame, lastReturn>>

\* split.js 175-176: the side's tracks and its nextIndex are taken over
PS_Return ==
  /\ ps.pc = "wait"
  /\ sp.pc = "returned"
  /\ ps' = [ps EXCEPT !.pc = "loop", !.i = ps.i + 1,
                      !.allTracks = ps.allTracks \o sp.tracks,
                      !.currentIndex = sp.trackIndex,
                      !.counts = Append(ps.counts, Len(sp.tracks)),
                      !.failures = ps.failures + Cardinality(sp.failed)]
  /\ lastReturn' = [lastReturn EXCEPT ![sp.side] =
                      [ok |-> TRUE, files |-> {tracks[sp.tracks[k]] : k \in 1..Len(sp.tracks)}]]
  /\ sp' = IdleSplit
  /\ UNCHANGED <<fsVars, sidesFrame>>

\* a sequencer that skips a side whose split raised
PS_Raise_Skip ==
  /\ ps.pc = "wait"
  /\ sp.pc = "raised"
  /\ ps' = [ps EXCEPT !.pc = "loop", !.i = ps.i + 1]
  /\ sp' = IdleSplit
  /\ UNCHANGED <<fsVars, sidesFrame, lastReturn>>

\* split.js 170: an error of splitIntoTracks leaves processSides
PS_Raise ==
  /\ ps.pc = "wait"
  /\ sp.pc = "raised"
  /\ ps' = [ps EXCEPT !.pc = "raised"]
  /\ sp' = IdleSplit
  /\ UNCHANGED <<fsVars, sidesFrame, lastReturn>>

\* split.js 179: every side is done
PS_Done ==
  /\ ps.pc = "loop"
  /\ ps.i = ps.n
  /\ ps' = [ps EXCEPT !.pc = "returned"]
  /\ UNCHANGED <<fsVars, sidesFrame, sp, lastReturn>>

\* ------------------------------------------------------------------------
\* One call of processSides on 1..MaxSides side files
\* ------------------------------------------------------------------------
NoConfig == [cleanup |-> FALSE, cleanupLevel |-> "all", dryRun |-> FALSE, purgeTrash |-> FALSE,
             introTrimSec |-> 0, minSegment |-> 0, generateNames |-> FALSE,
             renameFiles |-> FALSE]

IdleItem == [pc |-> "idle", run |-> 0, config |-> NoConfig, skipStatus |-> NoSkipStatus,
             tracks |-> <<>>, outcome |-> "none", exitCode |-> 0,
             validAtStart |-> FALSE, downloaded |-> FALSE,
             cleanupReport |-> NewReport(NoConfig), failedCleanupReport |-> NewReport(NoConfig),
             successReport |-> FALSE, metadataRefetched |-> FALSE, errorDir |-> "",
             errorReport |-> FALSE, namesJson |-> FALSE, renamedCount |-> 0]

InitSides ==
  /\ tracksExists = FALSE
  /\ tracks = <<>>
  /\ rawExists = TRUE /\ trash = <<>> /\ trashDirs = {}
  /\ sp = IdleSplit
  /\ v = IdleValidator
  /\ pi = IdleItem
  /\ lastReturn = NoReturns
  /\ cs = IdleCheck /\ mc = IdleCleanup /\ mt = IdleMove
  /\ \E n \in 1..MaxSides, options \in SplitOptions :
       /\ sideAudio \in [1..n -> SideAudios]
       /\ pa = IdlePick /\ gp = IdlePreset
       /\ pg = IdleProgressive
       /\ rawFiles = 1..n
       /\ ps = NewSides(n, 1, options)

NextSides == \/ S_Trim \/ S_Detect \/ S_Whole \/ S_Build \/ S_Probe \/ S_ExportStart \/ S_Export \/ S_Finish
             \/ PS_Call \/ PS_Return \/ PS_Raise \/ PS_Done

SpecSides == InitSides /\ [][NextSides]_vars

\* ------------------------------------------------------------------------
\* One call of isTracksOutputValid on every small tracks directory
\* ------------------------------------------------------------------------
DirNames == {TrackName(1), TrackName(2),
             [k |-> "track", d |-> <<0, 0, 3>>, ext |-> "MP3"],
             [k |-> "notes", d |-> <<>>, ext |-> "txt"]}

DirFiles == {[dur |-> d, broken |-> FALSE, side |-> 1, run |-> 1, idx |-> 0] :
               d \in {NaN, MinTrackDur - 1, MinTrackDur, MinTrackDur + 1}}
            \cup {[dur |-> NaN, broken |-> TRUE, side |-> 1, run |-> 1, idx |-> 0]}

Dirs == UNION {[names -> DirFiles] : names \in SUBSET DirNames}

InitValid ==
  /\ sp = IdleSplit
  /\ ps = IdleSides
  /\ pi = IdleItem
  /\ rawExists = FALSE /\ rawFiles = {} /\ trash = <<>> /\ trashDirs = {}
  /\ lastReturn = NoReturns
  /\ cs = IdleCheck /\ mc = IdleCleanup /\ mt = IdleMove
  /\ sideAudio = NoAudio
  /\ pa = IdlePick /\ gp = IdlePreset
  /\ pg = IdleProgressive
  /\ v = NewValidator("test")
  /\ \/ tracksExists = FALSE /\ tracks = <<>>
     \/ tracksExists = TRUE /\ tracks \in Dirs

NextValid == V_Start \/ V_Probe \/ V_Valid

SpecValid == InitValid /\ [][NextValid]_vars

\* ------------------------------------------------------------------------
\* One call of splitIntoTracks on every input
\* ------------------------------------------------------------------------
InitSplit ==
  /\ tracksExists = FALSE
  /\ tracks = <<>>
  /\ v = IdleValidator
  /\ ps = IdleSides
  /\ pi = IdleItem
  /\ rawExists = FALSE /\ rawFiles = {} /\ trash = <<>> /\ trashDirs = {}
  /\ lastReturn = NoReturns
  /\ cs = IdleCheck /\ mc = IdleCleanup /\ mt = IdleMove
  /\ sideAudio = NoAudio
  /\ pa = IdlePick /\ gp = IdlePreset
  /\ pg = IdleProgressive
  /\ \E in \in SplitInputs, t \in 0..MaxTrim, k \in 1..MaxStart :
       sp = NewSplit(1, 1, in.audio, t, in.minSegment, k)

NextSplit == S_Trim \/ S_Detect \/ S_Whole \/ S_Build \/ S_Probe \/ S_ExportStart \/ S_Export \/ S_Finish

SpecSplit == InitSplit /\ [][NextSplit]_vars

\* ------------------------------------------------------------------------
\* processItem (cli.js 239-428): one run of the command line per frame pi
\* ------------------------------------------------------------------------
\* cli.js 24-41: the flags of a run without --generateNames.  dryRun and
\* purgeTrash are read only by maybeCleanupItem and only past its cleanup gate,
\* so they vary with cleanup on
Configs ==
  {c \in [cleanup : BOOLEAN, cleanupLevel : {"all"}, dryRun : BOOLEAN, purgeTrash : BOOLEAN,
          introTrimSec : {0, NivenIntroTrimSec}, minSegment : {DefaultMinSegment},
          generateNames : {FALSE}, renameFiles : {FALSE}] :
     ~c.cleanup => (~c.dryRun /\ ~c.purgeTrash)}

\* cli.js 70-74: the flags of a run with --generateNames or --renameFiles
\* (which switches generateNames on)
NamingConfigs ==
  [cleanup : BOOLEAN, cleanupLevel : {"all"}, dryRun : {FALSE}, purgeTrash : {FALSE},
   introTrimSec : {0}, minSegment : {DefaultMinSegment},
   generateNames : {TRUE}, renameFiles : BOOLEAN]

\* part_000 13-47 as a function of the tracks directory
TracksOutputValid ==
  /\ tracksExists
  /\ \E n \in DOMAIN tracks : EndsWithMp3(n)
  /\ \A n \in DOMAIN tracks : EndsWithMp3(n) => ProbeOutcome(tracks[n]) = "ok"

\* cli.js 239-260: the state of a run that starts with the given flags
Begun(config) ==
  [IdleItem EXCEPT !.run = pi.run + 1, !.config = config,
                   !.validAtStart = TracksOutputValid]

\* cli.js 239-260: a new run; getMetadata succeeds or throws
PI_Begin ==
  /\ pi.pc = "idle"
  /\ pi.run < MaxRuns
  /\ \E config \in Configs :
       \/ pi' = [Begun(config) EXCEPT !.pc = "checkskip"]
       \/ pi' = [Begun(config) EXCEPT !.pc = "catch"]
  /\ UNCHANGED <<sideAudio, pg, pa, gp, fsVars, rawVars, sp, v, ps, lastReturn, cs, mc, mt>>

\* cli.js 239-260 with the flags of cli.js 70-74: a new run that names tracks
PI_BeginNaming ==
  /\ pi.pc = "idle"
  /\ pi.run < MaxRuns
  /\ \E config \in NamingConfigs :
       \/ pi' = [Begun(config) EXCEPT !.pc = "checkskip"]
       \/ pi' = [Begun(config) EXCEPT !.pc = "catch"]
  /\ UNCHANGED <<sideAudio, pg, pa, gp, fsVars, rawVars, sp, v, ps, lastReturn, cs, mc, mt>>

\* a run that never consults the Resume Planner
ConsultsPlanner_Never(config) == FALSE

\* cli.js 263: the Resume Planner is consulted only when cleanup is enabled
ConsultsPlanner(config) == config.cleanup

\* cli.js 262-264: checkSkipStatus is called, or the run goes straight on
PI_CheckSkip ==
  /\ pi.pc = "checkskip"
  /\ IF ConsultsPlanner(pi.config)
     THEN /\ cs' = [cs EXCEPT !.pc = "start"]
          /\ pi' = [pi EXCEPT !.pc = "skipwait"]
     ELSE /\ cs' = cs
          /\ pi' = [pi EXCEPT !.pc = "download"]
  /\ UNCHANGED <<sideAudio, pg, pa, gp, fsVars, rawVars, sp, v, ps, lastReturn, mc, mt>>

\* cli.js 264-276: Skip returns null at once; otherwise the run goes on
PI_SkipStatus ==
  /\ pi.pc = "skipwait"
  /\ cs.pc = "done"
  /\ pi' = [pi EXCEPT !.skipStatus = cs.result,
                      !.pc = IF cs.result.skip THEN "idle" ELSE "download",
                      !.outcome = IF cs.result.skip THEN "skipped" ELSE pi.outcome]
  /\ cs' = IdleCheck
  /\ UNCHANGED <<sideAudio, pg, pa, gp, fsVars, rawVars, sp, v, ps, lastReturn, mc, mt>>

\* cli.js 278-301 with downloadItemFiles (part_002 26-70): raw/ is created and
\* the side files are fetched in order; the first failing download throws
PI_Download ==
  /\ pi.pc = "download"
  /\ rawExists' = TRUE
  /\ \E k \in 0..ItemSides :
       /\ rawFiles' = rawFiles \cup 1..k
       /\ pi' = [pi EXCEPT !.pc = IF k = ItemSides THEN "sides" ELSE "catch",
                           !.downloaded = TRUE]
  /\ UNCHANGED <<sideAudio, pg, pa, gp, fsVars, trash, trashDirs, sp, v, ps, lastReturn, cs, mc, mt>>

\* cli.js 304-314: processSides on the downloaded paths
PI_Sides ==
  /\ pi.pc = "sides"
  /\ ps' = NewSides(ItemSides, pi.run,
                    [introTrimSec |-> pi.config.introTrimSec, minSegment |-> pi.config.minSegment,
                     concurrency |-> PresetConcurrency, startIndex |-> NoStartIndex,
                     progressiveCleanup |-> pi.config.cleanup])
  /\ pi' = [pi EXCEPT !.pc = "sideswait"]
  /\ UNCHANGED <<sideAudio, pg, pa, gp, fsVars, rawVars, sp, v, lastReturn, cs, mc, mt>>

\* cli.js 307-316: processSides returned its track list
PI_SidesReturned ==
  /\ pi.pc = "sideswait"
  /\ ps.pc = "returned"
  /\ pi' = [pi EXCEPT !.pc = IF pi.config.generateNames THEN "naming" ELSE "cleanup",
                      !.tracks = ps.allTracks]
  /\ ps' = IdleSides
  /\ UNCHANGED <<sideAudio, pg, pa, gp, fsVars, rawVars, sp, v, lastReturn, cs, mc, mt>>

\* cli.js 307 and 379-380: an error of processSides reaches the catch
PI_SidesRaised ==
  /\ pi.pc = "sideswait"
  /\ ps.pc = "raised"
  /\ pi' = [pi EXCEPT !.pc = "catch"]
  /\ ps' = IdleSides
  /\ UNCHANGED <<sideAudio, pg, pa, gp, fsVars, rawVars, sp, v, lastReturn, cs, mc, mt>>

CleanupCall(config, failed) ==
  [cleanup |-> config.cleanup, cleanupLevel |-> config.cleanupLevel, dryRun |-> config.dryRun,
   purgeTrash |-> config.purgeTrash, failed |-> failed]

\* cli.js 336-347: maybeCleanupItem with failed = processingFailed, still false
PI_Cleanup ==
  /\ pi.pc = "cleanup"
  /\ mc' = NewCleanup(CleanupCall(pi.config, FALSE))
  /\ pi' = [pi EXCEPT !.pc = "cleanwait"]
  /\ UNCHANGED <<sideAudio, pg, pa, gp, fsVars, rawVars, sp, v, ps, lastReturn, cs, mt>>

\* cli.js 338 and 359: the cleanup report is kept for report.json
PI_CleanupReturned ==
  /\ pi.pc = "cleanwait"
  /\ mc.pc = "returned"
  /\ pi' = [pi EXCEPT !.pc = "report", !.cleanupReport = mc.report]
  /\ mc' = IdleCleanup
  /\ UNCHANGED <<sideAudio, pg, pa, gp, fsVars, rawVars, sp, v, ps, lastReturn, cs, mt>>

\* cli.js 162-166: the side guessed from the number in the file name
GuessedSide(trackNum, total) ==
  IF trackNum <= (total + 1) \div 2 THEN "Side A" ELSE "Side B"

\* naming.js 279-295 and cli.js 178-180: the file name made of the title
TitleName(side, trackIndex) ==
  [k |-> side, d |-> PadStart(Digits(trackIndex), 2), ext |-> "mp3"]

\* cli.js 154-206: the loop over the tracks; with renameFiles a track that
\* exists is renamed to its title
RECURSIVE RenameTracks(_, _, _)
RenameTracks(dir, paths, i) ==
  IF i > Len(paths) THEN dir
  ELSE LET newName == TitleName(GuessedSide(IndexOfTrack(paths[i]), Len(paths)), i)
       IN IF paths[i] \in DOMAIN dir /\ paths[i] # newName
          THEN RenameTracks(WriteFile(RemoveFile(dir, paths[i]), newName, dir[paths[i]]),
                            paths, i + 1)
          ELSE RenameTracks(dir, paths, i + 1)

\* cli.js 320-330 with generateTrackNames (144-220): the body of the async
\* function runs at the call (renames, then names.json is written or the
\* write fails); the call is not awaited, so trackNamesData is a promise and
\* reading trackNamesData.tracks.length throws into the catch
PI_Naming ==
  /\ pi.pc = "naming"
  /\ tracks' = IF pi.config.renameFiles THEN RenameTracks(tracks, pi.tracks, 1) ELSE tracks
  /\ \E written \in BOOLEAN :
       pi' = [pi EXCEPT !.pc = "catch", !.namesJson = written,
                        !.renamedCount = Cardinality((DOMAIN tracks') \ (DOMAIN tracks))]
  /\ UNCHANGED <<sideAudio, pg, pa, gp, tracksExists, rawVars, sp, v, ps, lastReturn, cs, mc, mt>>

\* cli.js 349-378: report.json is written and the run ends, or the write
\* throws into the catch
PI_Report ==
  /\ pi.pc = "report"
  /\ \/ pi' = [pi EXCEPT !.pc = "idle", !.outcome = "complete", !.successReport = TRUE]
     \/ pi' = [pi EXCEPT !.pc = "catch"]
  /\ UNCHANGED <<sideAudio, pg, pa, gp, fsVars, rawVars, sp, v, ps, lastReturn, cs, mc, mt>>

\* cli.js 387-397: the item directory of the error report
ErrorItemDir(metadataFetched) == IF metadataFetched THEN "itemDir" ELSE "out/identifier"

\* cli.js 379-409: the metadata are fetched again for the directory of the
\* error report, then maybeCleanupItem is called with failed = true
PI_Catch ==
  /\ pi.pc = "catch"
  /\ \E metadataFetched \in BOOLEAN :
       pi' = [pi EXCEPT !.pc = "catchwait", !.metadataRefetched = metadataFetched,
                        !.errorDir = ErrorItemDir(metadataFetched)]
  /\ mc' = NewCleanup(CleanupCall(pi.config, TRUE))
  /\ UNCHANGED <<sideAudio, pg, pa, gp, fsVars, rawVars, sp, v, ps, lastReturn, cs, mt>>

\* an exit code that depends on the error report
ExitCode_NeedsReport(errorReportWritten) == IF errorReportWritten THEN 1 ELSE 0

\* cli.js 422-426: the error of the report write is swallowed, then exit(1)
ExitCode(errorReportWritten) == 1

\* cli.js 411-426: the error report is written or the write fails; the
\* process exits either way
PI_ErrorReport ==
  /\ pi.pc = "catchwait"
  /\ mc.pc = "returned"
  /\ \E written \in BOOLEAN :
       pi' = [pi EXCEPT !.pc = "idle", !.outcome = "exit",
                        !.failedCleanupReport = mc.report,
                        !.errorReport = written,
                        !.exitCode = ExitCode(written)]
  /\ mc' = IdleCleanup
  /\ UNCHANGED <<sideAudio, pg, pa, gp, fsVars, rawVars, sp, v, ps, lastReturn, cs, mt>>

\* ------------------------------------------------------------------------
\* Runs of the command line on one item, one after the other
\* ------------------------------------------------------------------------
Init ==
  /\ tracksExists = FALSE
  /\ tracks = <<>>
  /\ rawExists = FALSE /\ rawFiles = {} /\ trash = <<>> /\ trashDirs = {}
  /\ sp = IdleSplit
  /\ v = IdleValidator
  /\ ps = IdleSides
  /\ pi = IdleItem
  /\ lastReturn = NoReturns
  /\ cs = IdleCheck /\ mc = IdleCleanup /\ mt = IdleMove
  /\ sideAudio \in [1..ItemSides -> SideAudios]
  /\ pa = IdlePick /\ gp = IdlePreset
  /\ pg = IdleProgressive

Next == \/ PI_Begin \/ PI_CheckSkip \/ PI_SkipStatus \/ PI_Download \/ PI_Sides
        \/ PI_SidesReturned \/ PI_SidesRaised \/ PI_Cleanup \/ PI_CleanupReturned
        \/ PI_Report \/ PI_Catch \/ PI_ErrorReport
        \/ CS_Start \/ CS_Verdict
        \/ MC_Gate \/ MC_Validated \/ MC_Move \/ MC_Moved \/ MC_Purge \/ MT_Move
        \/ PS_Call \/ PS_Return \/ PS_Raise \/ PS_Done
        \/ S_Trim \/ S_Detect \/ S_Whole \/ S_Build \/ S_Probe \/ S_ExportStart \/ S_Export \/ S_Finish
        \/ V_Start \/ V_Probe \/ V_Valid

Spec == Init /\ [][Next]_vars

\* ------------------------------------------------------------------------
\* Runs of the command line with --generateNames on one item.  The steps of
\* processItem after the naming step (cli.js 336-378) and the moves of
\* maybeCleanupItem are not reached by such a run
\* ------------------------------------------------------------------------
NextNaming == \/ PI_BeginNaming \/ PI_CheckSkip \/ PI_SkipStatus \/ PI_Download \/ PI_Sides
              \/ PI_SidesReturned \/ PI_SidesRaised \/ PI_Naming \/ PI_Catch \/ PI_ErrorReport
              \/ CS_Start \/ CS_Verdict
              \/ MC_Gate
              \/ PS_Call \/ PS_Return \/ PS_Raise \/ PS_Done
              \/ S_Trim \/ S_Detect \/ S_Whole \/ S_Build \/ S_Probe \/ S_ExportStart \/ S_Export \/ S_Finish
              \/ V_Start \/ V_Probe \/ V_Valid

SpecNaming == Init /\ [][NextNaming]_vars

\* ------------------------------------------------------------------------
\* Calls of checkSkipStatus on every small item directory
\* ------------------------------------------------------------------------
\* the caller reads the verdict and asks again
CS_Again ==
  /\ cs.pc \in {"idle", "done"}
  /\ cs.calls < MaxCalls
  /\ cs' = [cs EXCEPT !.pc = "start", !.previous = cs.result]
  /\ UNCHANGED <<sideAudio, pg, pa, gp, fsVars, rawVars, sp, v, ps, pi, lastReturn, mc, mt>>

InitResume ==
  /\ sp = IdleSplit
  /\ ps = IdleSides
  /\ pi = IdleItem
  /\ v = IdleValidator
  /\ lastReturn = NoReturns
  /\ cs = IdleCheck /\ mc = IdleCleanup /\ mt = IdleMove
  /\ sideAudio = NoAudio
  /\ pa = IdlePick /\ gp = IdlePreset
  /\ pg = IdleProgressive
  /\ trash = <<>> /\ trashDirs = {}
  /\ \/ rawExists = FALSE /\ rawFiles = {}
     \/ rawExists = TRUE /\ rawFiles \in SUBSET (1..ItemSides)
  /\ \/ tracksExists = FALSE /\ tracks = <<>>
     \/ tracksExists = TRUE /\ tracks \in Dirs

NextResume == CS_Again \/ CS_Start \/ CS_Verdict \/ V_Start \/ V_Probe \/ V_Valid

SpecResume == InitResume /\ [][NextResume]_vars

\* ------------------------------------------------------------------------
\* One call of maybeCleanupItem, or of moveToTrash alone, on every small
\* item directory and trash
\* ------------------------------------------------------------------------
CleanupDirs ==
  UNION {[names -> {f \in DirFiles : f.dur \in {MinTrackDur - 1, MinTrackDur}}] :
           names \in SUBSET {TrackName(1), TrackName(2)}}

Trashes == {<<>>} \cup {[p \in {TrashPath(now, "raw")} |-> TrashEntry(files)] :
                          now \in Clock, files \in SUBSET (1..ItemSides)}

InitCleanup ==
  /\ sp = IdleSplit
  /\ ps = IdleSides
  /\ pi = IdleItem
  /\ v = IdleValidator
  /\ cs = IdleCheck
  /\ lastReturn = NoReturns
  /\ sideAudio = NoAudio
  /\ pa = IdlePick /\ gp = IdlePreset
  /\ trash \in Trashes
  /\ trashDirs \in {dirs \in SUBSET Clock : \A p \in DOMAIN trash : p[1] \in dirs}
  /\ \/ rawExists = FALSE /\ rawFiles = {}
     \/ rawExists = TRUE /\ rawFiles \in SUBSET (1..ItemSides)
  /\ \/ tracksExists = FALSE /\ tracks = <<>>
     \/ tracksExists = TRUE /\ tracks \in CleanupDirs
  /\ \/ /\ mt = IdleMove
        /\ pg = IdleProgressive
        /\ mc \in {NewCleanup(options) : options \in CleanupOptions}
     \/ /\ mc = IdleCleanup
        /\ pg = IdleProgressive
        /\ mt \in {NewMove("caller", "raw", dryRun) : dryRun \in BOOLEAN}
     \/ /\ mc = IdleCleanup
        /\ mt = IdleMove
        /\ pg \in {NewProgressive("raw", options) : options \in ProgressiveOptions}

NextCleanup == \/ MC_Gate \/ MC_Validated \/ MC_Move \/ MC_Moved \/ MC_Purge \/ MT_Move
               \/ PG_Gate \/ PG_Moved
               \/ V_Start \/ V_Probe \/ V_Valid

SpecCleanup == InitCleanup /\ [][NextCleanup]_vars

\* ------------------------------------------------------------------------
\* One call of pickAudioFiles on every short file list of the metadata
\* ------------------------------------------------------------------------
RECURSIVE FileLists(_)
FileLists(n) ==
  IF n = 0 THEN {<<>>}
  ELSE LET shorter == FileLists(n - 1)
       IN shorter \cup {Append(files, name) : files \in shorter, name \in MetaNames}

NoRepeat(files) == \A a, b \in 1..Len(files) : a # b => files[a] # files[b]

NothingOnDisk ==
  /\ tracksExists = FALSE /\ tracks = <<>>
  /\ rawExists = FALSE /\ rawFiles = {} /\ trash = <<>> /\ trashDirs = {}
  /\ sp = IdleSplit /\ v = IdleValidator /\ ps = IdleSides /\ pi = IdleItem
  /\ lastReturn = NoReturns
  /\ cs = IdleCheck /\ mc = IdleCleanup /\ mt = IdleMove /\ pg = IdleProgressive
  /\ sideAudio = NoAudio

InitPick ==
  /\ NothingOnDisk
  /\ gp = IdlePreset
  /\ pa \in {NewPick(files, preferMp3) :
               files \in {f \in FileLists(MaxFiles) : NoRepeat(f)}, preferMp3 \in BOOLEAN}

NextPick == PA_Pick

SpecPick == InitPick /\ [][NextPick]_vars

\* ------------------------------------------------------------------------
\* One call of getPreset on every preset name and every set of overrides
\* ------------------------------------------------------------------------
InitPreset ==
  /\ NothingOnDisk
  /\ pa = IdlePick
  /\ gp \in {NewPreset(presetName, cliOverrides) :
               presetName \in PresetNames, cliOverrides \in CliOverrides}

NextPreset == GP_Get

SpecPreset == InitPreset /\ [][NextPreset]_vars

\* ------------------------------------------------------------------------
\* Segment properties (splitIntoTracks, split.js 99-121)
\* ------------------------------------------------------------------------
SplitActive == sp.pc # "idle"

SegmentsBuilt == sp.pc \in {"export", "exporting", "returned"} /\ Len(sp.silences) > 0

\* C1: for a silence list sorted by start and non-overlapping, every segment
\* built has duration >= minSegment, and the segments are pairwise disjoint
\* and ordered by strictly increasing start.
C1_SegmentsWellFormed ==
  (SplitActive /\ SortedDisjoint(sp.audio.silences)) =>
    /\ \A a \in 1..Len(sp.segments) :
         /\ sp.segments[a].duration >= sp.minSegment
         /\ sp.segments[a].duration = sp.segments[a].end - sp.segments[a].start
    /\ \A a, b \in 1..Len(sp.segments) :
         a < b => /\ sp.segments[a].start < sp.segments[b].start
                  /\ sp.segments[a].end <= sp.segments[b].start

C1_Witness ==
  /\ SegmentsBuilt
  /\ Len(sp.segments) >= 2
  /\ sp.minSegment > 0
  /\ Len(sp.segments) < Len(sp.silences) + 1

\* The reference result of the converter, gap by gap: gap k lies between the
\* end of silence k-1 (0 for the first) and the start of silence k (the total
\* duration for the last).
RefGapStart(silences, k) == IF k = 1 THEN 0 ELSE silences[k - 1].end

RefGapEnd(silences, total, k) == IF k <= Len(silences) THEN silences[k].start ELSE total

RefKept(silences, total, minSegment, k) ==
  LET a == RefGapStart(silences, k)
      b == RefGapEnd(silences, total, k)
  IN b # NaN /\ b > a /\ b - a >= minSegment

RECURSIVE RefFrom(_, _, _, _)
RefFrom(silences, total, minSegment, k) ==
  IF k > Len(silences) + 1 THEN <<>>
  ELSE (IF RefKept(silences, total, minSegment, k)
        THEN <<Interval(RefGapStart(silences, k), RefGapEnd(silences, total, k))>>
        ELSE <<>>) \o RefFrom(silences, total, minSegment, k + 1)

RefSegments(silences, total, minSegment) == RefFrom(silences, total, minSegment, 1)

IsExample ==
  /\ sp.silences = ExampleAudio.silences
  /\ sp.totalDuration = ExampleAudio.total
  /\ sp.minSegment = DefaultMinSegment

\* C2: the segment list built equals the reference result (a too-short gap
\* is dropped, never merged, and lastEnd moves past every silence); for
\* silences (10,11),(45,46), total 60, minSegment 20 the result is the single
\* segment (11,45) and exactly one track is exported.
C2_SegmentsEqualReference ==
  /\ SegmentsBuilt =>
       sp.segments = RefSegments(sp.silences, sp.totalDuration, sp.minSegment)
  /\ (SegmentsBuilt /\ IsExample) => sp.segments = <<Interval(11, 45)>>
  /\ (sp.pc = "returned" /\ IsExample /\ sp.failed = {}) =>
       /\ Len(sp.tracks) = 1
       /\ sp.tracks[1] \in DOMAIN tracks
       /\ tracks[sp.tracks[1]].dur = 34

C2_Witness == sp.pc = "returned" /\ IsExample /\ sp.failed = {} /\ Len(sp.tracks) = 1

\* ------------------------------------------------------------------------
\* Export properties (splitIntoTracks, split.js 125-150)
\* ------------------------------------------------------------------------
\* C5: when the export of a segment fails, no error is raised, the remaining
\* segments are still exported, the failed segment is absent from the
\* returned list, and nextIndex = startIndex + number of successful exports.
C5_FailedExportContained ==
  (SplitActive /\ sp.failed # {}) =>
    /\ sp.pc \in {"export", "exporting", "returned"}
    /\ sp.failed \subseteq 1..sp.j
    /\ Len(sp.tracks) = sp.j - Cardinality(sp.failed)
    /\ sp.trackIndex = sp.startIndex + Len(sp.tracks)
    /\ sp.pc = "returned" =>
         /\ sp.j = Len(sp.segments)
         /\ Len(sp.tracks) = Len(sp.segments) - Cardinality(sp.failed)
         /\ Cardinality(sp.failed) = 1 => Len(sp.tracks) = Len(sp.segments) - 1

C5_Witness ==
  /\ sp.pc = "returned"
  /\ Cardinality(sp.failed) = 1
  /\ 1 \in sp.failed
  /\ Len(sp.segments) >= 2
  /\ Len(sp.tracks) = Len(sp.segments) - 1

\* C6: the indices of the tracks returned by one call form the contiguous
\* range startIndex .. nextIndex-1, whichever exports fail.
C6_IndicesContiguous ==
  (SplitActive /\ sp.pc = "returned") =>
    /\ sp.trackIndex = sp.startIndex + Len(sp.tracks)
    /\ \A k \in 1..Len(sp.tracks) : sp.tracks[k] = TrackName(sp.startIndex + k - 1)

C6_Witness ==
  /\ sp.pc = "returned"
  /\ sp.failed # {}
  /\ Len(sp.tracks) >= 2
  /\ sp.startIndex > 1

\* C7: with zero silence intervals the whole working file is exported as
\* exactly one track at index startIndex, nextIndex = startIndex + 1, and the
\* segment-building step does not run.
C7_ZeroSilenceWholeFile ==
  (SplitActive /\ Len(sp.audio.silences) = 0) =>
    /\ sp.pc \notin {"build", "probe", "export", "exporting"}
    /\ sp.i = 0 /\ sp.j = 0 /\ sp.segments = <<>> /\ sp.totalDuration = NaN
    /\ sp.pc = "returned" =>
         /\ sp.tracks = <<TrackName(sp.startIndex)>>
         /\ sp.trackIndex = sp.startIndex + 1
         /\ TrackName(sp.startIndex) \in DOMAIN tracks
         /\ tracks[TrackName(sp.startIndex)].dur = sp.audio.total
         /\ tracks[TrackName(sp.startIndex)].idx = sp.startIndex

C7_Witness ==
  /\ sp.pc = "returned"
  /\ Len(sp.audio.silences) = 0
  /\ sp.startIndex > 1
  /\ sp.tracks = <<TrackName(sp.startIndex)>>

\* ------------------------------------------------------------------------
\* Output Validator properties (isTracksOutputValid, part_000 13-47)
\* ------------------------------------------------------------------------
AudioFiles == {n \in DOMAIN tracks : n.ext \in {"mp3", "MP3", "Mp3"}}

ProbesLongEnough(n) == ~tracks[n].broken /\ tracks[n].dur # NaN /\ tracks[n].dur >= MinTrackDur

ProbeFails(n) == tracks[n].broken \/ tracks[n].dur = NaN

C9_ProbeFailureFailsFast ==
  /\ (v.pc = "done" /\ \E n \in AudioFiles : ProbeFails(n)) => ~v.result.valid
  /\ \A k \in 1..Len(v.probed) :
       ProbeFails(v.probed[k]) =>
         /\ k = Len(v.probed)
         /\ v.pc = "done"
         /\ ~v.result.valid
         /\ v.result.file = v.probed[k]
  /\ v.pc \in {"idle", "start", "probe", "done"}

C9_Witness ==
  /\ v.pc = "done"
  /\ Len(v.probed) = 2
  /\ ProbeFails(v.probed[2])
  /\ tracks[v.probed[2]].dur = NaN /\ ~tracks[v.probed[2]].broken
  /\ Cardinality(AudioFiles) = 3

\* ------------------------------------------------------------------------
\* Side Sequencer properties (processSides, split.js 160-180)
\* ------------------------------------------------------------------------
\* C3: on sides [A, B] where side A yields n tracks, side B's first exported
\* track receives global index n + 1.
C3_SideBContinues ==
  /\ (ps.pc = "wait" /\ sp.side = 2 /\ Len(sp.tracks) >= 1) =>
       /\ sp.tracks[1] = TrackName(ps.counts[1] + 1)
       /\ tracks[sp.tracks[1]].side = 2
       /\ tracks[sp.tracks[1]].idx = ps.counts[1] + 1
  /\ (Len(ps.counts) >= 2 /\ ps.counts[2] >= 1) =>
       IndexOfTrack(ps.allTracks[ps.counts[1] + 1]) = ps.counts[1] + 1

C3_Witness ==
  /\ ps.pc = "returned"
  /\ Len(ps.counts) = 2
  /\ ps.counts[1] = 2
  /\ ps.counts[2] >= 1
  /\ ps.allTracks[3] = TrackName(3)
  /\ tracks[TrackName(3)].side = 2

ReturnedSoFar == IF ps.pc = "wait" /\ sp.pc # "idle" THEN ps.allTracks \o sp.tracks ELSE ps.allTracks

\* C4: over a whole processSides run, for any number of sides and any pattern
\* of export successes and failures, the indices of the returned tracks are
\* strictly increasing in export order and no two returned tracks have the
\* same index or the same file path.
C4_IndicesStrictlyIncreasing ==
  ps.pc # "idle" =>
    \A a, b \in 1..Len(ReturnedSoFar) :
      a < b => /\ IndexOfTrack(ReturnedSoFar[a]) < IndexOfTrack(ReturnedSoFar[b])
               /\ ReturnedSoFar[a] # ReturnedSoFar[b]

C4_Witness ==
  /\ ps.pc = "returned"
  /\ ps.n = MaxSides
  /\ ps.failures >= 1
  /\ Len(ps.allTracks) >= 3
  /\ \A k \in 1..ps.n : ps.counts[k] >= 1

\* ------------------------------------------------------------------------
\* Validator accuracy over runs (part_000 13-47 and 299-317, split.js 160-180)
\* ------------------------------------------------------------------------
\* The tracks directory is a complete result when every side of the item has
\* been split to the end and the tracks that split returned are still there.
SideExported(s) ==
  /\ lastReturn[s].ok
  /\ \A file \in lastReturn[s].files : \E n \in DOMAIN tracks : tracks[n] = file

CompleteResult == \A s \in 1..ItemSides : SideExported(s)

\* C10: in every state reachable by sequences of runs, whenever
\* isTracksOutputValid / checkSkipStatus says valid / skip, the tracks
\* directory holds the exported tracks of every side of the item.
C10_ValidOnlyIfComplete ==
  /\ (v.pc = "done" /\ v.result.valid) => CompleteResult
  /\ (pi.pc = "idle" /\ pi.outcome = "skipped") => CompleteResult

\* ------------------------------------------------------------------------
\* Resume Planner properties (checkSkipStatus, part_000 299-317)
\* ------------------------------------------------------------------------
TracksAreValid ==
  tracksExists /\ AudioFiles # {} /\ \A n \in AudioFiles : ProbesLongEnough(n)

VerdictSkip ==
  [skip |-> TRUE, reason |-> "tracks output valid", needsDownload |-> FALSE, needsSplit |-> FALSE]

VerdictNeedsFullProcessing ==
  [skip |-> FALSE, reason |-> "needs full processing", needsDownload |-> TRUE, needsSplit |-> TRUE]

VerdictNeedsSplitOnly ==
  [skip |-> FALSE, reason |-> "needs split", needsDownload |-> FALSE, needsSplit |-> TRUE]

\* C11: checkSkipStatus returns Skip exactly when the tracks output is valid;
\* otherwise NeedsFullProcessing (needsDownload and needsSplit) when the raw
\* directory does not exist and NeedsSplitOnly when it exists; every on-disk
\* state gets exactly one of the three verdicts.
C11_ResumeVerdict ==
  cs.pc = "done" =>
    /\ cs.result \in {VerdictSkip, VerdictNeedsFullProcessing, VerdictNeedsSplitOnly}
    /\ (cs.result = VerdictSkip) <=> TracksAreValid
    /\ (cs.result = VerdictNeedsFullProcessing) <=> (~TracksAreValid /\ ~rawExists)
    /\ (cs.result = VerdictNeedsSplitOnly) <=> (~TracksAreValid /\ rawExists)

C11_Witness ==
  /\ cs.pc = "done"
  /\ cs.result = VerdictNeedsSplitOnly
  /\ rawExists /\ rawFiles = {}
  /\ tracksExists /\ \E n \in AudioFiles : tracks[n].dur = MinTrackDur - 1

\* C12: checkSkipStatus and isTracksOutputValid are pure functions of the
\* on-disk state: no step of theirs changes the raw directory, the tracks
\* directory or the trash, and a second call on the same on-disk state
\* returns the verdict of the first.
C12_PlannerIsPure ==
  [][/\ UNCHANGED <<fsVars, rawVars>>
     /\ (cs'.pc = "done" /\ cs'.calls >= 2) => cs'.result = cs'.previous]_vars

C12_Witness ==
  /\ cs.pc = "done"
  /\ cs.calls = 2
  /\ cs.result = VerdictNeedsSplitOnly
  /\ cs.previous = VerdictNeedsSplitOnly
  /\ Cardinality(AudioFiles) >= 2

\* ------------------------------------------------------------------------
\* Re-run properties (processItem, cli.js 262-301)
\* ------------------------------------------------------------------------
RunInProgress == pi.pc # "idle"

RedoesNothing ==
  /\ UNCHANGED <<fsVars, rawVars>>
  /\ ~pi'.downloaded
  /\ ps' = IdleSides /\ sp' = IdleSplit

\* C13: a run of processItem that starts on a valid tracks output redoes
\* nothing, for every configuration of flags: it performs no download and no
\* split/export and leaves raw/, tracks/ and the trash unchanged.
C13_RerunRedoesNothing ==
  [][(RunInProgress /\ pi.validAtStart) => RedoesNothing]_vars

\* C13, amended: a run of processItem with cleanup enabled that starts on a
\* valid tracks output redoes nothing: no download, no split/export, and
\* raw/, tracks/ and the trash are left unchanged.
C13_RerunWithCleanupRedoesNothing ==
  [][(RunInProgress /\ pi.validAtStart /\ pi.config.cleanup) => RedoesNothing]_vars

C13_Witness ==
  /\ pi.pc = "idle"
  /\ pi.run = 2
  /\ pi.outcome = "skipped"
  /\ pi.validAtStart
  /\ pi.config.cleanup /\ pi.config.purgeTrash /\ ~pi.config.dryRun
  /\ rawExists

\* C14: in a run with cleanup enabled, raw files are downloaded only when the
\* resume verdict is NeedsFullProcessing; a NeedsSplitOnly run re-splits
\* without downloading again.
C14_DownloadOnlyWhenNeeded ==
  (pi.config.cleanup /\ pi.downloaded) => pi.skipStatus = VerdictNeedsFullProcessing

\* ------------------------------------------------------------------------
\* Reclaimer properties (maybeCleanupItem and moveToTrash, part_000 67-251)
\* ------------------------------------------------------------------------
ValidatorReasons ==
  {"tracks/ directory not found", "no MP3 files in tracks/", "too short", "failed to probe"}

CleanupAllowed(frame) ==
  /\ frame.options.cleanup
  /\ ~frame.options.failed
  /\ frame.validation.valid
  /\ TracksAreValid

\* C15: maybeCleanupItem moves the raw directory to the trash only in a call
\* with cleanup enabled, failed false and a validator run of that call that
\* said valid; when the validator says invalid nothing is moved or removed
\* and report.skipped is the validator's reason.
C15_CleanupIsGated ==
  [][/\ (mc.pc # "idle" /\ rawVars' # rawVars) => CleanupAllowed(mc)
     /\ (mc'.pc = "returned" /\ Len(mc'.report.movedToTrash) > 0) => CleanupAllowed(mc')
     /\ (mc'.pc = "returned" /\ mc'.options.cleanup /\ ~mc'.options.failed /\ ~TracksAreValid) =>
          /\ mc'.report.movedToTrash = <<>>
          /\ ~mc'.report.purged
          /\ ~mc'.validation.valid
          /\ mc'.report.skipped = mc'.validation.reason
          /\ mc'.report.skipped \in ValidatorReasons]_vars

C15_Witness ==
  /\ mc.pc = "returned"
  /\ mc.options.cleanupLevel = "tracks"
  /\ mc.report.movedToTrash = <<"raw">>
  /\ mc.report.savedBytes = DirSize(1..ItemSides)
  /\ mc.validation.valid /\ mc.validation.mp3Count = 2
  /\ ~rawExists

\* C16: a run of processItem that fails at any step has moved nothing to the
\* trash and purged nothing: its cleanup reports list no moved item, and the
\* call made with failed = true was skipped as 'item failed' or 'cleanup
\* disabled'.
C16_FailedRunReclaimsNothing ==
  (pi.pc = "idle" /\ pi.outcome = "exit") =>
    /\ pi.cleanupReport.movedToTrash = <<>>
    /\ ~pi.cleanupReport.purged
    /\ pi.failedCleanupReport.movedToTrash = <<>>
    /\ ~pi.failedCleanupReport.purged
    /\ pi.failedCleanupReport.skipped =
         IF pi.config.cleanup THEN "item failed" ELSE "cleanup disabled"

\* C17: every run that reaches the catch of processItem attempts the error
\* report in the item directory, or in out/identifier when the metadata
\* cannot be fetched again, and then exits with a non-zero code, whether or
\* not the error report could be written; such a run writes no success
\* report.
C17_FatalErrorExitsNonZero ==
  [][/\ (pi.pc = "catch" /\ pi'.pc # "catch") =>
          /\ pi'.pc = "catchwait"
          /\ pi'.errorDir = IF pi'.metadataRefetched THEN "itemDir" ELSE "out/identifier"
     /\ (pi.pc = "catchwait" /\ pi'.pc # "catchwait") =>
          /\ pi'.pc = "idle"
          /\ pi'.outcome = "exit"
     /\ (pi'.pc = "idle" /\ pi'.outcome = "exit") =>
          /\ pi'.exitCode # 0
          /\ ~pi'.successReport
     /\ pi'.successReport => (pi'.outcome = "complete" /\ pi'.exitCode = 0)]_vars

C17_Witness ==
  /\ pi.pc = "idle"
  /\ pi.outcome = "exit"
  /\ pi.exitCode = 1
  /\ ~pi.errorReport
  /\ ~pi.metadataRefetched /\ pi.errorDir = "out/identifier"
  /\ tracksExists /\ DOMAIN tracks # {}

Held == rawFiles \cup UNION {trash[p].files : p \in DOMAIN trash}

\* C18: in every step of a run without purgeTrash, each downloaded raw source
\* that is under raw/ or in a trash record before the step is under raw/ or in
\* a trash record after it; and the raw directory only ever disappears by
\* being moved, with all its files, into a new trash record.
C18_RawSourcesAreKept ==
  [][/\ ~pi.config.purgeTrash => Held \subseteq Held'
     /\ (rawExists /\ ~rawExists') =>
          \E p \in (DOMAIN trash') \ (DOMAIN trash) :
            /\ trash'[p].files = rawFiles
            /\ trash'[p].size = DirSize(rawFiles)
            /\ \A q \in DOMAIN trash : trash'[q] = trash[q]]_vars

C18_Witness ==
  /\ pi.pc = "idle"
  /\ pi.outcome = "exit"
  /\ ~pi.config.purgeTrash
  /\ pi.cleanupReport.movedToTrash = <<"raw">>
  /\ ~rawExists
  /\ DOMAIN trash # {}
  /\ \A p \in DOMAIN trash : trash[p].files = 1..ItemSides

\* C19: in dry-run mode the reclaimer changes nothing on disk: moveToTrash
\* with dryRun returns null and leaves the source and the trash as they were;
\* maybeCleanupItem with dryRun ends with movedToTrash empty and purged false,
\* purgeTrash requested or not, and raw/, tracks/ and the trash unchanged.
C19_DryRunMutatesNothing ==
  [][/\ (mt.pc = "call" /\ mt.dryRun) =>
          /\ UNCHANGED <<fsVars, rawVars>>
          /\ mt'.pc = "returned" => mt'.result = NoKey
     /\ (mc.pc # "idle" /\ mc.options.dryRun) =>
          /\ UNCHANGED <<fsVars, rawVars>>
          /\ mc'.report.movedToTrash = <<>>
          /\ ~mc'.report.purged]_vars

C19_Witness ==
  /\ mc.pc = "returned"
  /\ mc.options.dryRun /\ mc.options.purgeTrash
  /\ mc.options.cleanup /\ ~mc.options.failed
  /\ mc.validation.valid
  /\ mc.report.skipped = ""
  /\ mc.toClean # <<>>
  /\ rawExists /\ rawFiles = 1..ItemSides
  /\ DOMAIN trash # {}

C21_NoOverwriteInTrash ==
  [][/\ (mt.pc = "call" /\ mt'.pc = "returned") =>
          /\ \A p \in DOMAIN trash : p \in DOMAIN trash' /\ trash'[p] = trash[p]
          /\ (mt'.trashPath \in DOMAIN trash /\ ~mt.dryRun) =>
               /\ mt'.result = NoKey
               /\ UNCHANGED <<rawExists, rawFiles, trash>>
     /\ (mc.pc = "moving" /\ mt.pc = "returned" /\ mt.result = NoKey) =>
          mc'.report.movedToTrash = <<>>]_vars

C21_Witness ==
  /\ mt.pc = "returned"
  /\ ~mt.dryRun
  /\ mt.srcExisted
  /\ mt.trashPath \in DOMAIN trash
  /\ mt.result = NoKey
  /\ rawExists /\ rawFiles = 1..ItemSides
  /\ trash[mt.trashPath].files = {1}

\* C22: moveToTrash of a source that does not exist returns null and changes
\* nothing: no entry and no directory appears under the trash root, and the
\* call returns instead of raising.
C22_MissingSourceIsNoOp ==
  [][(mt.pc = "call" /\ ~rawExists) =>
       /\ mt'.pc = "returned"
       /\ mt'.result = NoKey
       /\ UNCHANGED <<fsVars, rawVars>>]_vars

C22_Witness ==
  /\ mt.pc = "returned"
  /\ ~mt.dryRun
  /\ ~mt.srcExisted
  /\ mt.result = NoKey
  /\ ~rawExists
  /\ trash = <<>> /\ trashDirs = {}

TrashRecordsKept == \A p \in DOMAIN trash : p \in DOMAIN trash' /\ trash'[p] = trash[p]

\* C23: trash records are destroyed only by the purge, which maybeCleanupItem
\* runs only when purgeTrash was requested, an item was moved to the trash in
\* that call and dry run is off; a purge that runs removes the whole subtree
\* of the item; every other step leaves every existing record as it was.
C23_OnlyPurgeDestroysRecords ==
  [][/\ ~TrashRecordsKept =>
          /\ mc.pc = "purge"
          /\ mc.options.purgeTrash
          /\ Len(mc.report.movedToTrash) > 0
          /\ ~mc.options.dryRun
          /\ mc'.report.purged
     /\ (mc'.report.purged /\ ~mc.report.purged) =>
          /\ mc.pc = "purge"
          /\ mc.options.purgeTrash /\ Len(mc.report.movedToTrash) > 0 /\ ~mc.options.dryRun
          /\ trash' = <<>> /\ trashDirs' = {}]_vars

C23_Witness ==
  /\ mc.pc = "returned"
  /\ mc.report.purged
  /\ mc.report.movedToTrash = <<"raw">>
  /\ mc.report.savedBytes = DirSize(1..ItemSides)
  /\ trash = <<>> /\ trashDirs = {}
  /\ ~rawExists

\* ------------------------------------------------------------------------
\* Track lifecycle (split.js 91-96 and 129-143)
\* ------------------------------------------------------------------------
IsTrack(n) == n.k = "track"

SameContent(a, b) == a.dur = b.dur /\ a.broken = b.broken /\ a.side = b.side

\* C24: once a track file exists in tracks/, no step of the core overwrites,
\* truncates or unlinks it: in every step every existing track file keeps
\* its name and its content.
C24_TracksAreNeverOverwritten ==
  [][\A n \in DOMAIN tracks :
       IsTrack(n) => (n \in DOMAIN tracks' /\ SameContent(tracks'[n], tracks[n]))]_vars

\* ------------------------------------------------------------------------
\* Cleanup levels (part_000 211-226)
\* ------------------------------------------------------------------------
KnownLevels == {"raw", "tracks", "all"}

RawCandidate ==
  IF rawExists THEN <<[path |-> "raw", name |-> "raw", size |-> DirSize(rawFiles)]>> ELSE <<>>

\* C25: for the levels raw, tracks and all maybeCleanupItem does the same
\* from the same on-disk state: its candidates are the raw directory when it
\* exists and nothing otherwise, whatever the level, and no step of it moves
\* or removes the tracks directory or a file in it.
C25_LevelsBehaveAlike ==
  [][/\ \A level \in KnownLevels : ToClean(level) = RawCandidate
     /\ (mc'.pc = "move" /\ mc'.options.cleanupLevel \in KnownLevels) =>
          (mc'.toClean = RawCandidate /\ rawExists)
     /\ (mc'.pc = "returned" /\ mc'.report.skipped = "nothing to clean"
           /\ mc'.options.cleanupLevel \in KnownLevels) => ~rawExists
     /\ mc.pc # "idle" => UNCHANGED fsVars]_vars

C25_Witness ==
  /\ mc.pc = "returned"
  /\ mc.options.cleanupLevel = "raw"
  /\ mc.report.level = "raw"
  /\ mc.report.movedToTrash = <<"raw">>
  /\ ~mc.report.purged
  /\ tracksExists /\ Cardinality(DOMAIN tracks) = 2
  /\ Cardinality(DOMAIN trash) = 2

\* ------------------------------------------------------------------------
\* Trimmed working file (split.js 72-97 and 145-150)
\* ------------------------------------------------------------------------
\* C26: when introTrimSec > 0 the trimmed working file no longer exists once
\* splitIntoTracks has finished, by a return or by a raised error.
C26_TrimmedFileRemoved ==
  (sp.pc \in {"returned", "raised"} /\ sp.introTrimSec > 0) =>
    TrimmedName(sp.side) \notin DOMAIN tracks

\* ------------------------------------------------------------------------
\* Failure of a side (split.js 72-89 and 160-180)
\* ------------------------------------------------------------------------
EarlierSidesIntact ==
  \A s \in 1..ps.i :
    /\ lastReturn[s].ok
    /\ \A file \in lastReturn[s].files : \E n \in DOMAIN tracks : tracks[n] = file

\* C27: a trim failure or a silence-analysis failure of a side is fatal for
\* the side: the split goes past the trim only with the trimmed file and past
\* the analysis only with its silences, and otherwise raises; processSides
\* then raises too, starts no later side, and the tracks exported for the
\* earlier sides stay on disk as they were.
C27_SideFailureIsFatal ==
  [][/\ (sp.pc = "trim" /\ sp'.pc # "trim") =>
          \/ sp'.pc = "raised" /\ UNCHANGED tracks
          \/ /\ sp'.pc = "detect"
             /\ sp.introTrimSec > 0 =>
                  (sp'.workingFile = "trimmed" /\ TrimmedName(sp.side) \in DOMAIN tracks')
     /\ (sp.pc = "detect" /\ sp'.pc # "detect") =>
          \/ sp'.pc = "raised" /\ UNCHANGED tracks
          \/ sp'.pc \in {"whole", "build"} /\ sp'.silences = sp.audio.silences
     /\ (ps.pc = "wait" /\ sp.pc = "raised") =>
          /\ ps'.pc = "raised"
          /\ ps'.i = ps.i /\ ps'.allTracks = ps.allTracks
          /\ UNCHANGED fsVars
     /\ ps.pc = "raised" => (ps'.pc = "raised" /\ sp'.pc = "idle" /\ UNCHANGED fsVars)
     /\ ps'.pc = "raised" => EarlierSidesIntact']_vars

C27_Witness ==
  /\ ps.pc = "wait"
  /\ sp.pc = "raised"
  /\ sp.side = 2
  /\ sp.introTrimSec > 0 /\ sp.workingFile = "trimmed"
  /\ sp.silences = <<>> /\ sp.audio.silences # <<>>
  /\ Len(ps.allTracks) = 2
  /\ \A k \in 1..2 : ps.allTracks[k] \in DOMAIN tracks

RequestedStart ==
  IF ps.options.startIndex = NoStartIndex THEN 1 ELSE ps.options.startIndex

\* C29: processSides called with options.startIndex = k gives index k to the
\* first exported track of the first side, and index 1 when no startIndex is
\* given.
C29_SharedStartingIndex ==
  (ps.pc \in {"loop", "returned"} /\ Len(ps.counts) >= 1 /\ ps.counts[1] >= 1) =>
    IndexOfTrack(ps.allTracks[1]) = RequestedStart

\* ------------------------------------------------------------------------
\* Progressive cleanup (part_000 259-279)
\* ------------------------------------------------------------------------
ProgressiveActive == pg.pc # "idle"

\* the caller gave the key and gave it as true
SuppliedTrue(key) == key \in DOMAIN pg.options /\ pg.options[key]

\* the caller gave the key and gave it as false
SuppliedFalse(key) == key \in DOMAIN pg.options /\ ~pg.options[key]

\* the call returns false and neither the file nor the trash changes
KeepsFile ==
  /\ UNCHANGED rawVars
  /\ pg'.pc = "returned" => pg'.result = FALSE

\* C30: progressiveCleanup moves the given file to trash only when it is
\* enabled and the caller-supplied prerequisiteValid flag is true; when
\* disabled or when prerequisiteValid is false it returns false and leaves
\* the file and the trash unchanged.
C30_MovesOnlyWhenFlagSupplied ==
  [][(ProgressiveActive /\ ~(SuppliedTrue("enabled") /\ SuppliedTrue("prerequisiteValid")))
       => KeepsFile]_vars

\* C30 (amended): progressiveCleanup moves the given file to trash only when
\* enabled is given as true and prerequisiteValid is not given as false (a
\* prerequisiteValid left out counts as true); when enabled is false or left
\* out, or prerequisiteValid is false, it returns false and leaves the file
\* and the trash unchanged.
C30_ProgressiveGate ==
  [][(ProgressiveActive /\ ~(SuppliedTrue("enabled") /\ ~SuppliedFalse("prerequisiteValid")))
       => KeepsFile]_vars

C30_Witness ==
  /\ pg.pc = "returned"
  /\ SuppliedTrue("enabled")
  /\ SuppliedFalse("prerequisiteValid")
  /\ ~pg.result
  /\ rawExists
  /\ rawFiles # {}

\* ------------------------------------------------------------------------
\* Progressive cleanup inside a run (cli.js 307-314, split.js 160-180)
\* ------------------------------------------------------------------------
SidesDoneBeforeCleanup == pi.pc = "sideswait" /\ ps.pc = "returned"

\* C31: with cleanup enabled, raw files are reclaimed progressively: when
\* processSides, called with progressiveCleanup = true and no dry run, has
\* processed its sides and the final cleanup step has not run yet, a side's
\* raw file has already left raw/ for the trash.
C31_RawReclaimedProgressively ==
  (SidesDoneBeforeCleanup /\ ps.options.progressiveCleanup /\ ~pi.config.dryRun) =>
    (rawFiles # 1..ItemSides \/ ~rawExists)

\* ------------------------------------------------------------------------
\* Track naming inside a run (cli.js 318-334, generateTrackNames 144-220)
\* ------------------------------------------------------------------------
\* the run is over and its naming step wrote names.json: the metadata fetch,
\* the download and the split of this run all succeeded
NamedRunEnded == pi.pc = "idle" /\ pi.config.generateNames /\ pi.namesJson

\* C32: a processItem run with generateNames (or renameFiles) enabled in
\* which metadata fetch, download and split all succeed, and names.json is
\* written, completes: the cleanup gate runs with failed = false, a success
\* report is written and the process does not exit non-zero.
C32_NamedRunCompletes ==
  NamedRunEnded =>
    /\ pi.outcome = "complete"
    /\ pi.successReport
    /\ pi.exitCode = 0
    /\ pi.failedCleanupReport.skipped = ""

\* ------------------------------------------------------------------------
\* Audio selection (pickAudioFiles, part_001 71-124)
\* ------------------------------------------------------------------------
PickDone == pa.pc = "done"

\* the position of the first audio file of the list that matches the side
\* pattern, 0 when there is none
FirstOfSide(side) ==
  LET at == {a \in 1..Len(pa.files) : IsAudioFile(pa.files[a]) /\ SidePattern(side, pa.files[a])}
  IN IF at = {} THEN 0 ELSE CHOOSE a \in at : \A b \in at : a <= b

\* C33: when the file list holds an audio MP3 matching *_Side_A.mp3 and one
\* matching *_Side_B.mp3, pickAudioFiles with preferMp3 returns exactly two
\* files, Side A first and Side B second, whatever their order in the
\* metadata.
C33_SideAFirst ==
  (PickDone /\ pa.preferMp3 /\ FirstOfSide("A") > 0 /\ FirstOfSide("B") > 0) =>
    /\ ~pa.result.raised
    /\ Len(pa.result.files) = 2
    /\ pa.result.files[1] = pa.files[FirstOfSide("A")]
    /\ pa.result.files[2] = pa.files[FirstOfSide("B")]

C33_Witness ==
  /\ PickDone /\ pa.preferMp3
  /\ FirstOfSide("A") > FirstOfSide("B") /\ FirstOfSide("B") > 0
  /\ Len(pa.files) = 3
  /\ Len(pa.result.files) = 2
  /\ SidePattern("A", pa.result.files[1])

\* the audio files of the list with the given extension, in metadata order
AudioWithExt(ext) ==
  LET Is(name) == IsAudioFile(name) /\ HasExt(name, ext) IN SelectSeq(pa.files, Is)

AllAudio == SelectSeq(pa.files, IsAudioFile)

HasSidePair == FirstOfSide("A") > 0 /\ FirstOfSide("B") > 0

\* the selection by the documented priority
DocumentedPick ==
  IF HasSidePair THEN <<pa.files[FirstOfSide("A")], pa.files[FirstOfSide("B")]>>
  ELSE IF Len(AudioWithExt("mp3")) > 0 THEN AudioWithExt("mp3")
  ELSE IF Len(AudioWithExt("flac")) > 0 THEN AudioWithExt("flac")
  ELSE IF Len(AudioWithExt("wav")) > 0 THEN AudioWithExt("wav")
  ELSE AllAudio

\* C34: pickAudioFiles applies the documented priority: the Side A/B MP3s
\* first; without a Side A/B pair all the MP3 files; without MP3s the FLAC
\* files; without FLAC the WAV files; and it raises only when the item has
\* no audio file at all.
C34_DocumentedPriority ==
  (PickDone /\ pa.preferMp3) =>
    /\ pa.result.raised <=> Len(AllAudio) = 0
    /\ ~pa.result.raised => pa.result.files = DocumentedPick

\* ------------------------------------------------------------------------
\* Presets (getPreset, part_003 32-63)
\* ------------------------------------------------------------------------
PresetDone == gp.pc = "done"

\* the preset the settings start from: the chosen one, niven without a
\* name, default for a name that is not a preset
ChosenPreset ==
  IF ~gp.presetName.given \/ gp.presetName.name = "" THEN NivenPreset
  ELSE IF gp.presetName.name = "niven" THEN NivenPreset
  ELSE DefaultPreset

\* the override of a key counts when it is given and neither null nor
\* undefined
Overridden(key) ==
  /\ key \in DOMAIN gp.cliOverrides
  /\ gp.cliOverrides[key] \notin {JsNull, JsUndefined}

\* C35: getPreset returns the chosen preset's values with every non-null,
\* non-undefined CLI override taking precedence and every null or undefined
\* override leaving the preset value intact; with no preset name the niven
\* preset is the base, and with an unknown preset name the default preset is
\* the base.
C35_PresetWithOverrides ==
  PresetDone =>
    /\ DOMAIN gp.result = SettingKeys
    /\ \A key \in SettingKeys :
         gp.result[key] = IF Overridden(key) THEN gp.cliOverrides[key] ELSE ChosenPreset[key]

\* ------------------------------------------------------------------------
\* Export of a whole side (split.js 91-97)
\* ------------------------------------------------------------------------
\* C36: in the zero-silence path a failure of the whole-file export is not
\* contained: the step out of that path either writes the single track and
\* returns it, or raises with no track list and no new file; processSides
\* then raises as well, whereas a failed segment export is skipped and the
\* call goes on.
C36_WholeExportFailureRaises ==
  [][/\ sp.pc = "whole" =>
          \/ /\ sp'.pc = "returned"
             /\ sp'.tracks = <<TrackName(sp.startIndex)>>
             /\ TrackName(sp.startIndex) \in DOMAIN tracks'
          \/ /\ sp'.pc = "raised" /\ sp'.error = "export"
             /\ sp'.tracks = <<>>
             /\ UNCHANGED tracks
     /\ (ps.pc = "wait" /\ sp.pc = "raised" /\ sp.error = "export") => ps'.pc = "raised"
     /\ (sp.pc = "exporting" /\ UNCHANGED tracks) =>
          (sp'.pc = "export" /\ sp'.failed = sp.failed \cup {sp.j + 1})]_vars

C36_Witness ==
  /\ ps.pc = "wait"
  /\ sp.pc = "raised" /\ sp.error = "export"
  /\ sp.side = 2
  /\ Len(sp.audio.silences) = 0
  /\ Len(ps.allTracks) > 0 /\ ps.failures > 0

\* ------------------------------------------------------------------------
\* Result of processSides and content of tracks/ (split.js 72-97, 125-150)
\* ------------------------------------------------------------------------
Mp3Files == {n \in DOMAIN tracks : EndsWithMp3(n)}

ReturnedPaths == {ps.allTracks[a] : a \in 1..Len(ps.allTracks)}

\* C37: when processSides starts with an empty tracks directory and returns
\* normally, the .mp3 files of the tracks directory are exactly the paths it
\* returns, so the count the validator reports is the number of returned
\* tracks.
C37_DirectoryIsTheResult ==
  (ps.pc = "returned" /\ ps.run = 1) =>
    /\ Mp3Files = ReturnedPaths
    /\ Cardinality(Mp3Files) = Len(ps.allTracks)

\* ------------------------------------------------------------------------
\* Tracks of earlier runs (split.js 61-70 and 125-150, cli.js 262-314)
\* ------------------------------------------------------------------------
\* the run split again: the planner asked for the split only, or it was not
\* consulted
ReSplit ==
  /\ pi.run >= 2
  /\ ~pi.config.cleanup \/ (pi.skipStatus.needsSplit /\ ~pi.skipStatus.needsDownload)

\* C38: after a re-split that returns normally, every track file in the
\* tracks directory was produced by that run: no track file of an earlier
\* run remains to be counted by the validator.
C38_NoStaleTracks ==
  (SidesDoneBeforeCleanup /\ ReSplit) =>
    \A n \in DOMAIN tracks : IsTrack(n) => tracks[n].run = pi.run

\* ------------------------------------------------------------------------
\* Input file of splitIntoTracks (split.js 72-86 and 145-148)
\* ------------------------------------------------------------------------
\* C39: splitIntoTracks never deletes, moves or overwrites its input file:
\* in every step of a call, with or without intro trim and whatever the trim,
\* the analysis and the exports do, the side files under raw/ stay as they
\* are, and the only file a step removes from tracks/ is the trimmed working
\* file of the side.
C39_InputFileIsKept ==
  [][SplitActive =>
       /\ UNCHANGED <<rawExists, rawFiles>>
       /\ \A n \in (DOMAIN tracks) \ (DOMAIN tracks') :
            n = TrimmedName(sp.side) /\ sp.workingFile = "trimmed"]_vars

C39_Witness ==
  /\ sp.pc = "returned"
  /\ sp.introTrimSec = 0 /\ sp.workingFile = "input"
  /\ Len(sp.segments) >= 2 /\ sp.failed # {}
  /\ rawExists /\ sp.side \in rawFiles

====
